---- MODULE Spec2Model ----
(***************************************************************************)
(* Model of the CSNews scraper core (src/scraper.js and the browser-session *)
(* module): the rate limiter, the session registry and the news / matches / *)
(* rankings content pipeline with its file cache.                           *)
(*                                                                          *)
(* Time is counted in ticks of one second; a clock reading is the floor of  *)
(* the real time.  Configuration values that config.json may override       *)
(* (interval length, request cap, session cap, TTLs) are chosen small.      *)
(*                                                                          *)
(* SpecRate runs enforceRateLimit for several concurrent callers.  Spec runs *)
(* the content fetches one after the other, with getSession calls of the    *)
(* rest of the bot in between.                                              *)
(***************************************************************************)
EXTENDS Integers, Sequences, FiniteSets, TLC

(* ------------------------------ bounds --------------------------------- *)
\* last tick of the clock
MaxTime == 4
\* config.scraper.maxRequestsPerInterval
MaxRequestsPerInterval == 2
\* config.scraper.requestIntervalMs, in ticks
RequestIntervalTicks == 4
\* number of enforceRateLimit calls in a run of the limiter specification
MaxCalls == 4

\* config.scraper.maxSessions
MaxSessions == 2
\* config.scraper.sessionTtl, in ticks
SessionTtlTicks == 3
\* getSession is called from outside the pipeline, and Math.random() rotates a
\* session, while this.activeSessions is below this value
MaxActive == 3
\* sessions are drawn with a behaviour of at most this many page views
MaxPageViews == 3
\* this.cacheTTLHours, in ticks
CacheTTLTicks == 2
\* number of network requests that the fetches of one run can make
MaxRequests == 3
\* largest limit passed to the matches and rankings fetches
MaxLimit == 2
\* largest number of matches on the matches page
MaxMatches == 2
\* largest number of items in the feed and of urls in the sitemap
MaxItems == 1
\* cookies are set while the jar holds fewer than this many
MaxCookies == 2
\* largest number of makeRequest calls of the caller that requests pages
MaxVisits == 2
\* largest number of getCurrentTournament calls
MaxLookups == 1
\* the tournament cache is used for less than this many ticks (6 hours)
TournamentTtlTicks == 1
\* config.maxArticlesToKeep
MaxArticlesToKeep == 2
\* largest number of articles of one fetch, of news updates, and of restarts
MaxFetched == 3
MaxUpdates == 3
MaxRestarts == 1
\* the concurrent callers of makeRequest that share a session id, and the
\* largest number of calls they make
MaxRacers == 2
MaxRaceCalls == 4
\* this.cacheTTLHours as the constructor sets it, and the hours for which
\* getCurrentTournament uses its cached name
DefaultCacheTTLHours == 1
TournamentTTLHours == 6
\* the hours for which the age of a cache file is followed
MaxAgeHours == 8
\* by how much the session counter exceeds the cap when a cleanup is called
MaxOver == 2
\* start.js: the restarts the wrapper allows
MAX_RESTARTS == 5
\* largest catalog of profiles, largest weight of a profile, and the random
\* selections of one behaviour
MaxProfiles == 3
MaxWeight == 2
MaxDraws == 1
\* Math.random() is one of 0, 1/Grid, .., (Grid - 1)/Grid, or the largest
\* number below 1
Grid == 4

None == "none"

\* no registry call was made in the step, and no response was handled
NoCall == [made |-> FALSE, due |-> FALSE, threw |-> FALSE, replaced |-> FALSE,
           fresh |-> FALSE, size |-> 0, status |-> "none"]

VARIABLES
  now,                  \* Date.now(), in ticks
  requestsPerInterval,  \* this.requestsPerInterval
  lastResetTime,        \* this.lastResetTime
  rl,                   \* the enforceRateLimit calls in flight, per caller
  admitted,             \* times of the admissions (counter increments) of the last interval
  calls,                \* number of enforceRateLimit calls made
  sessions,             \* this.sessions: the registered sessions, in key order
  activeSessions,       \* this.activeSessions
  lastCall,             \* the createNewSession / getSession call made in the last step,
                        \* or how the request that settled in it was answered
  cache,                \* the cache files, per dataset
  pl,                   \* the content fetch in progress and where it is suspended
  out,                  \* what the current (or last) content fetch did and returned
  prev,                 \* what the content fetch before it returned
  jar,                  \* a CookieJar: this.cookies, the cookies stored per domain key
  jarDomains,           \* this.domains of that CookieJar
  upserted,             \* the cookies that were set in the jar in the last step
  purged,               \* whether the last step purged the jar, and of how many cookies
  visit,                \* the makeRequest calls of a caller that requests pages one after the other
  tour,                 \* the getCurrentTournament call in progress, its result and its cache file
  bot,                  \* index.js: the posted articles and what the channel received
  draw,                 \* the last random selection: the function, its inputs and its result
  race,                 \* the makeRequest calls of callers that share a session id
  conf,                 \* the configured cache TTL, the cache files and their age in hours
  wrapper               \* start.js: the restart count and the bot processes it spawned

limiterVars == <<requestsPerInterval, lastResetTime, rl>>
historyVars == <<admitted, calls>>
registryVars == <<sessions, activeSessions>>
pipelineVars == <<cache, pl, out, prev>>
\* no purge in the last step
NoPurge == [ran |-> FALSE, removed |-> 0]

jarVars == <<jar, jarDomains, upserted, purged>>
sideVars == <<visit, tour, bot, draw, race, conf, wrapper>>
vars == <<now, limiterVars, historyVars, registryVars, lastCall, pipelineVars, jarVars,
          sideVars>>

(* ============================ rate limiter ============================== *)
Callers == 1..(MaxRequestsPerInterval + 1)
RequestTypes == {"api", "feed", "standard"}

Range(f) == {f[i] : i \in DOMAIN f}
Max(a, b) == IF a >= b THEN a ELSE b
Min(a, b) == IF a <= b THEN a ELSE b

\* a duration of loMs..hiMs milliseconds, as a difference of two clock readings
DelayTicks(loMs, hiMs) == (loMs \div 1000)..((hiMs + 999) \div 1000)

\* the wait is randomised by Math.random() * 1000 - 500 milliseconds
Jitter == DelayTicks(0 - 500, 500)

\* timingPatterns: [minDelay, maxDelay] of each pattern, in milliseconds
timingPatterns(p) ==
  CASE p = "pageLoad" ->
         [minDelay |-> 800, maxDelay |-> 3000, distribution |-> "normal",
          mean |-> 1500, stdDev |-> 400]
    [] p = "resourceFetch" ->
         [minDelay |-> 50, maxDelay |-> 500, distribution |-> "exponential"]
    [] p = "subsequentRequests" ->
         [minDelay |-> 2000, maxDelay |-> 10000, distribution |-> "mixed",
          patterns |-> <<[weight |-> 7, min |-> 2000, max |-> 4000],
                         [weight |-> 3, min |-> 5000, max |-> 10000]>>]
    [] OTHER ->
         [minDelay |-> 800, maxDelay |-> 3000, distribution |-> "normal",
          mean |-> 1500, stdDev |-> 400]

\* getRandomDelay: whatever the distribution draws, the result is clamped to
\* [minDelay, maxDelay]
getRandomDelay(p) == DelayTicks(timingPatterns(p).minDelay, timingPatterns(p).maxDelay)

\* the additional delay of enforceRateLimit, by request type
additionalDelay(type) ==
  CASE type = "api" -> DelayTicks(50, 349)
    [] type \in {"sitemap", "feed"} -> DelayTicks(100, 599)
    [] OTHER -> getRandomDelay("pageLoad")

\* "Reset counter if interval has passed"
ResetIfElapsed(n, cnt, last) ==
  IF n - last > RequestIntervalTicks
  THEN [cnt |-> 0, last |-> n]
  ELSE [cnt |-> cnt, last |-> last]

\* the limit check and the time left to the end of the interval
LimitReached(cnt) == cnt >= MaxRequestsPerInterval
TimeToWait(n, last) == RequestIntervalTicks - (n - last)

\* the admissions of the interval that ends at time t
Recent(times, t) == SelectSeq(times, LAMBDA a : a > t - RequestIntervalTicks)

IdleCall == [pc |-> "idle", wake |-> 0, type |-> None, enteredAt |-> None,
             waited |-> FALSE]

\* enforceRateLimit up to its first await: the reset, the limit check, and the
\* timer it then sleeps on (the randomised wait, or the additional delay)
RLEnterCore(c, type) ==
  /\ rl[c].pc = "idle"
  /\ LET r == ResetIfElapsed(now, requestsPerInterval, lastResetTime) IN
     /\ lastResetTime' = r.last
     /\ requestsPerInterval' = r.cnt
     /\ IF LimitReached(r.cnt) /\ TimeToWait(now, r.last) > 0
        THEN \E j \in Jitter :
               rl' = [rl EXCEPT ![c] =
                        [pc |-> "rlWait",
                         wake |-> now + Max(0, TimeToWait(now, r.last) + j),
                         type |-> type, enteredAt |-> now, waited |-> TRUE]]
        ELSE \E d \in additionalDelay(type) :
               rl' = [rl EXCEPT ![c] =
                        [pc |-> "rlDelay", wake |-> now + d,
                         type |-> type, enteredAt |-> now, waited |-> FALSE]]

\* enforceRateLimit called by one of several concurrent callers
RLEnter(c, type) ==
  /\ pl.pc = "idle"
  /\ calls < MaxCalls
  /\ RLEnterCore(c, type)
  /\ calls' = calls + 1
  /\ UNCHANGED <<sideVars, now, admitted, registryVars, lastCall, pipelineVars, jarVars>>

\* the randomised wait is over: the counter is reset and the additional delay starts
RLAfterWait(c) ==
  /\ rl[c].pc = "rlWait"
  /\ now >= rl[c].wake
  /\ requestsPerInterval' = 0
  /\ lastResetTime' = now
  /\ \E d \in additionalDelay(rl[c].type) :
       rl' = [rl EXCEPT ![c].pc = "rlDelay", ![c].wake = now + d]
  /\ lastCall' = NoCall
  /\ UNCHANGED <<sideVars, now, admitted, calls, registryVars, pipelineVars, jarVars>>

\* the additional delay is over: this.requestsPerInterval++
RLAdmitCore(c) ==
  /\ rl[c].pc = "rlDelay"
  /\ now >= rl[c].wake
  /\ requestsPerInterval' = requestsPerInterval + 1
  /\ rl' = [rl EXCEPT ![c] = IdleCall]
  /\ UNCHANGED lastResetTime

\* the call of a concurrent caller resolves; the admission is recorded
RLAdmit(c) ==
  /\ pl.pc = "idle"
  /\ RLAdmitCore(c)
  /\ admitted' = Append(Recent(admitted, now), now)
  /\ UNCHANGED <<sideVars, now, calls, registryVars, lastCall, pipelineVars, jarVars>>

\* a timer that is due fires before the clock moves on
TimerDue ==
  \/ \E c \in Callers : rl[c].pc \in {"rlWait", "rlDelay"} /\ rl[c].wake <= now
  \/ pl.pc = "wait" /\ pl.wake <= now

\* the clock moves on between fetches and while a fetch sleeps on a timer; a
\* request in flight settles within the tick in which it was sent, and so do
\* the requests of a tournament lookup
Tick ==
  /\ now < MaxTime
  /\ ~TimerDue
  /\ pl.pc \in {"idle", "limit", "wait"}
  /\ tour.pc = "idle"
  /\ now' = now + 1
  /\ admitted' = Recent(admitted, now + 1)
  /\ lastCall' = NoCall
  /\ upserted' = <<>>
  /\ purged' = NoPurge
  /\ UNCHANGED <<sideVars, requestsPerInterval, lastResetTime, rl, calls, registryVars, pipelineVars,
                 jar, jarDomains>>

(* ================================ cache ================================== *)
Datasets == {"news", "matches", "teams"}

\* a cache file: missing, unreadable, or {timestamp, data}
Absent == [state |-> "absent", timestamp |-> 0, data |-> <<>>]
Unreadable == [state |-> "unreadable", timestamp |-> 0, data |-> <<>>]
Entry(ts, data) == [state |-> "entry", timestamp |-> ts, data |-> data]

\* loadFromCache under a setting of this.cacheTTLHours: null when the file is
\* missing, unreadable or older than the TTL
loadFromCacheUnder(cacheTTLHours, file, t) ==
  IF file.state = "entry" /\ ~(t - file.timestamp > cacheTTLHours)
  THEN [null |-> FALSE, data |-> file.data]
  ELSE [null |-> TRUE, data |-> <<>>]

\* loadFromCache of the scraper as it is configured
loadFromCache(file, t) == loadFromCacheUnder(CacheTTLTicks, file, t)

\* a tournament cache that is used whatever the age of the name in it
cachedTournamentOfAnyAge(cacheTTLHours, tournamentTtl, file, t) ==
  ~loadFromCacheUnder(cacheTTLHours, file, t).null

\* getCurrentTournament: the cached tournament is used when loadFromCache
\* returns it and its own timestamp is less than the tournament TTL ago
cachedTournamentUsed(cacheTTLHours, tournamentTtl, file, t) ==
  LET cached == loadFromCacheUnder(cacheTTLHours, file, t)
  IN ~cached.null /\ t - cached.data.timestamp < tournamentTtl

\* how a cache write can go: it succeeds, it fails and leaves the file as it
\* was, or it fails part-way and leaves a file that cannot be parsed
WriteFaults == {"none", "failed", "torn"}

\* saveToCache: writes {timestamp: now, data} unless the file already holds the
\* same data; an I/O error of the write is caught
saveToCache(file, data, t, fault) ==
  IF file.state = "entry" /\ file.data = data THEN file
  ELSE CASE fault = "none" -> Entry(t, data)
         [] fault = "failed" -> file
         [] OTHER -> Unreadable

(* =============================== records ================================= *)
\* toLocaleTimeString of the clock
toLocaleTimeString(t) == ToString(t)

Article(url, type, time) ==
  [url |-> url, type |-> type, time |-> time, fromCache |-> FALSE]

\* what the news page can hold: standard headlines (with or without their own
\* .time element) and featured links
NewsPages ==
  { [standard |-> 0, timed |-> FALSE, featured |-> 0],
    [standard |-> 2, timed |-> TRUE, featured |-> 1] }

\* the direct scrape with the featured links put first
ParseNewsPageFeaturedFirst(page, t) ==
  [i \in 1..page.featured |->
     Article("featured/" \o ToString(i), "featured", toLocaleTimeString(t))]
  \o [i \in 1..page.standard |->
     Article("news/" \o ToString(i), "standard",
             IF page.timed THEN "page" ELSE toLocaleTimeString(t))]

\* the direct scrape: standard headlines first, then featured links
ParseNewsPage(page, t) ==
  [i \in 1..page.standard |->
     Article("news/" \o ToString(i), "standard",
             IF page.timed THEN "page" ELSE toLocaleTimeString(t))]
  \o [i \in 1..page.featured |->
     Article("featured/" \o ToString(i), "featured", toLocaleTimeString(t))]

\* the feed: one article per item
ParseFeed(n) == [i \in 1..n |-> Article("item/" \o ToString(i), "standard", "pubDate")]

\* the sitemap: one article per url, the first 20 only
ParseSitemap(n) ==
  [i \in 1..Min(n, 20) |-> Article("loc/" \o ToString(i), "standard", "lastmod")]

createSimulatedNewsData(t) ==
  [i \in 1..5 |-> Article("simulated/" \o ToString(i), "standard", toLocaleTimeString(t))]

\* getNewsFromThirdParty: no request is made; the simulated articles are returned
getNewsFromThirdParty(t) == createSimulatedNewsData(t)

StaticNews(t) ==
  [i \in 1..2 |-> Article("placeholder/" \o ToString(i), "standard", toLocaleTimeString(t))]

Match(team, time) == [team1 |-> team, team2 |-> team, matchTime |-> time]

\* the matches page: the first `limit` matches
ParseMatches(n, limit) ==
  [i \in 1..Min(n, limit) |-> Match("team/" \o ToString(i), "page")]

StaticMatches(t) == <<Match("Unable to fetch matches", toLocaleTimeString(t))>>

Team(rank, name) == [rank |-> rank, name |-> name, points |-> "N/A"]

\* what a rankings page can hold: for each element, whether it carries a rank
\* and a name (a divider carries neither)
RankingPages == { <<>>, <<TRUE>>, <<FALSE, TRUE>> }

\* the rankings page: of the first `limit` elements, those with rank and name
ParseRanking(page, limit) ==
  LET RECURSIVE Walk(_)
      Walk(i) == IF i > Len(page) THEN <<>>
                 ELSE IF i <= limit /\ page[i]
                      THEN <<Team(ToString(i), "team/" \o ToString(i))>> \o Walk(i + 1)
                      ELSE Walk(i + 1)
  IN Walk(1)

StaticTeams == <<Team("1", "Unable to fetch rankings"), Team("2", "Please visit HLTV.org"),
                 Team("3", "for current rankings")>>

\* the cached articles handed back as they are stored
TagFromCacheNot(data) == data

\* cachedNews.map(article => ({...article, fromCache: true}))
TagFromCache(data) == [i \in 1..Len(data) |-> [data[i] EXCEPT !.fromCache = TRUE]]

\* cached.slice(0, limit)
Slice(data, limit) == SubSeq(data, 1, Min(Len(data), limit))

(* ============================== cookie jar =============================== *)
\* host names, as their dot-separated labels
Hosts == { <<"example", "com">>, <<"sub", "example", "com">>, <<"other", "com">>,
           <<"localhost">> }

\* a domain key of this.cookies: a host name, with or without a leading dot
DomainKey(dot, labels) == [dot |-> dot, labels |-> labels]
DomainKeys == {DomainKey(dot, h) : dot \in BOOLEAN, h \in Hosts}

\* paths, as the pieces that tell them apart: "/", "/news", "/news/1", "/newsletter"
Paths == { <<"/">>, <<"/", "news">>, <<"/", "news", "/1">>, <<"/", "news", "letter">> }

\* String.prototype.startsWith
startsWith(str, prefix) ==
  Len(prefix) <= Len(str) /\ SubSeq(str, 1, Len(prefix)) = prefix

\* cookie.expires: null, a Date, or the Invalid Date that new Date() makes of
\* text that is no date
NoExpiry == [kind |-> "none", at |-> 0]
DateAt(t) == [kind |-> "date", at |-> t]
InvalidDate == [kind |-> "invalid", at |-> 0]

\* the attributes of a set-cookie directive: Domain, Path, Expires (a date, or
\* text that is none), Max-Age (seconds), Secure
DomainAttr(key) == [attr |-> "domain", dom |-> key]
PathAttr(path) == [attr |-> "path", path |-> path]
ExpiresAttr(date) == [attr |-> "expires", date |-> date]
MaxAgeAttr(seconds) == [attr |-> "max-age", seconds |-> seconds]
SecureAttr == [attr |-> "secure"]

\* a set-cookie directive: name=value; attributes
Directive(name, value, attrs) == [name |-> name, value |-> value, attrs |-> attrs]

\* the set-cookie directives a response can carry
Directives ==
  { Directive("sid", "1", <<>>),
    Directive("sid", "2", <<>>),
    Directive("lang", "1", <<>>),
    Directive("sid", "1", <<DomainAttr(DomainKey(TRUE, <<"example", "com">>))>>),
    Directive("sid", "2", <<DomainAttr(DomainKey(TRUE, <<"example", "com">>)), SecureAttr>>),
    Directive("sid", "1", <<PathAttr(<<"/", "news">>)>>),
    Directive("sid", "1", <<ExpiresAttr(DateAt(2))>>),
    Directive("sid", "1", <<ExpiresAttr(InvalidDate)>>),
    Directive("sid", "1", <<MaxAgeAttr(1)>>),
    Directive("sid", "1", <<MaxAgeAttr(1), ExpiresAttr(DateAt(3))>>),
    Directive("sid", "1", <<ExpiresAttr(DateAt(3)), MaxAgeAttr(1)>>),
    Directive("sid", "1", <<SecureAttr>>) }

\* the set-cookie headers of one response: one directive, or two of the plain
\* ones
PlainDirectives == {h \in Directives : h.attrs = <<>>}
HeaderLists ==
  {<<h>> : h \in Directives} \cup {<<h1, h2>> : h1, h2 \in PlainDirectives}

\* parseCookie(setCookieHeader, domain): the defaults, then the attributes in
\* the order of the directive, a later one overwriting an earlier one
RECURSIVE ApplyAttrs(_, _, _)
ApplyAttrs(cookie, attrs, t) ==
  IF attrs = <<>> THEN cookie
  ELSE LET a == Head(attrs)
           c == CASE a.attr = "domain" -> [cookie EXCEPT !.domain = a.dom]
                  [] a.attr = "path" -> [cookie EXCEPT !.path = a.path]
                  [] a.attr = "expires" -> [cookie EXCEPT !.expires = a.date]
                  [] a.attr = "max-age" ->
                       [cookie EXCEPT !.expires = DateAt(t + a.seconds)]
                  [] OTHER -> [cookie EXCEPT !.secure = TRUE]
       IN ApplyAttrs(c, Tail(attrs), t)

parseCookie(setCookieHeader, domain, t) ==
  ApplyAttrs([name |-> setCookieHeader.name, value |-> setCookieHeader.value,
              domain |-> DomainKey(FALSE, domain), path |-> <<"/">>,
              expires |-> NoExpiry, secure |-> FALSE],
             setCookieHeader.attrs, t)

\* the cookie objects handed to setCookie
CookieObjects(t) == {parseCookie(h, d, t) : h \in Directives, d \in Hosts}

\* the key under which setCookie replaces
SameCookie(c, d) == c.domain = d.domain /\ c.name = d.name /\ c.path = d.path

\* new CookieJar(): no cookies under any domain
EmptyJar == [k \in DomainKeys |-> <<>>]

\* a setCookie that never looks for the cookie it replaces
setCookieAppend(cookies, cookie) ==
  [cookies EXCEPT ![cookie.domain] = Append(cookies[cookie.domain], cookie)]

\* setCookie(cookie): replaces the cookie of the same name and path stored
\* under cookie.domain, or appends
setCookie(cookies, cookie) ==
  LET list == cookies[cookie.domain]
      found == {i \in 1..Len(list) : list[i].name = cookie.name /\ list[i].path = cookie.path}
  IN IF found # {}
     THEN LET index == CHOOSE i \in found : \A j \in found : i <= j
          IN [cookies EXCEPT ![cookie.domain] = [list EXCEPT ![index] = cookie]]
     ELSE [cookies EXCEPT ![cookie.domain] = Append(list, cookie)]

\* addFromHeaders(headers, domain): every set-cookie directive is parsed and set
RECURSIVE SetAll(_, _)
SetAll(cookies, list) ==
  IF list = <<>> THEN cookies ELSE SetAll(setCookie(cookies, Head(list)), Tail(list))

\* a lookup that skips no cookie for its expiry
SkippedNever(cookie, t) == FALSE

\* is the cookie expired for the lookup, and is it kept by the purge
SkippedAsExpired(cookie, t) == cookie.expires.kind = "date" /\ cookie.expires.at < t
KeptByPurge(cookie, t) ==
  \/ cookie.expires.kind = "none"
  \/ cookie.expires.kind = "date" /\ cookie.expires.at >= t

\* a lookup that tries the host name only, not its parent domains
getMatchingCookiesOfHost(cookies, domain, path, secure, t) ==
  LET Matches(c) == /\ ~SkippedAsExpired(c, t)
                    /\ ~(c.secure /\ ~secure)
                    /\ startsWith(path, c.path)
  IN SelectSeq(cookies[DomainKey(FALSE, domain)], Matches)
       \o SelectSeq(cookies[DomainKey(TRUE, domain)], Matches)

\* a lookup that hands out Secure cookies whatever the connection
getMatchingCookiesAnyScheme(cookies, domain, path, secure, t) ==
  LET Matches(c) == /\ ~SkippedAsExpired(c, t)
                    /\ startsWith(path, c.path)
      RECURSIVE Walk(_)
      Walk(i) ==
        IF ~(i < Len(domain) - 1) THEN <<>>
        ELSE LET testDomain == SubSeq(domain, i + 1, Len(domain))
                 Of(dot) == IF DomainKey(dot, testDomain) \in DOMAIN cookies
                            THEN SelectSeq(cookies[DomainKey(dot, testDomain)], Matches)
                            ELSE <<>>
             IN Of(FALSE) \o Of(TRUE) \o Walk(i + 1)
  IN Walk(0)

\* getMatchingCookies(domain, path, secure): for the host name and each of its
\* parent domains of two labels or more, the cookies stored under that name and
\* under that name with a leading dot, less the expired ones, the secure ones on
\* a connection that is not, and those of another path
getMatchingCookies(cookies, domain, path, secure, t) ==
  LET Matches(c) == /\ ~SkippedAsExpired(c, t)
                    /\ ~(c.secure /\ ~secure)
                    /\ startsWith(path, c.path)
      RECURSIVE Walk(_)
      Walk(i) ==
        IF ~(i < Len(domain) - 1) THEN <<>>
        ELSE LET testDomain == SubSeq(domain, i + 1, Len(domain))
                 Of(dot) == IF DomainKey(dot, testDomain) \in DOMAIN cookies
                            THEN SelectSeq(cookies[DomainKey(dot, testDomain)], Matches)
                            ELSE <<>>
             IN Of(FALSE) \o Of(TRUE) \o Walk(i + 1)
  IN Walk(0)

\* getCookieString(url): name=value of the matching cookies
getCookieString(cookies, url, t) ==
  LET m == getMatchingCookies(cookies, url.host, url.path, url.https, t)
  IN [i \in 1..Len(m) |-> [name |-> m[i].name, value |-> m[i].value]]

\* the urls a cookie string is asked for
Urls == {[host |-> h, path |-> p, https |-> s] : h \in Hosts, p \in Paths, s \in BOOLEAN}

\* cleanExpiredCookies(): keeps the cookies with no expiry or one not before now
cleanExpiredCookies(cookies, t) ==
  [k \in DOMAIN cookies |-> SelectSeq(cookies[k], LAMBDA c : KeptByPurge(c, t))]

\* the number of cookies in the jar
Stored(cookies) ==
  Cardinality(UNION {{<<k, i>> : i \in 1..Len(cookies[k])} : k \in DOMAIN cookies})

\* jar.setCookie(cookie)
JarSetCookie(cookie) ==
  /\ Stored(jar) < MaxCookies
  /\ jar' = setCookie(jar, cookie)
  /\ upserted' = <<cookie>>
  /\ purged' = NoPurge
  /\ UNCHANGED <<sideVars, now, limiterVars, historyVars, registryVars, lastCall, pipelineVars,
                 jarDomains>>

\* jar.addFromHeaders(headers, domain) for a response of host `domain` with the
\* given set-cookie directives
JarAddFromHeaders(headers, domain) ==
  /\ Stored(jar) + Len(headers) <= MaxCookies
  /\ LET list == [i \in 1..Len(headers) |-> parseCookie(headers[i], domain, now)] IN
     /\ jar' = SetAll(jar, list)
     /\ upserted' = list
  /\ purged' = NoPurge
  /\ jarDomains' = jarDomains \cup {domain}
  /\ UNCHANGED <<sideVars, now, limiterVars, historyVars, registryVars, lastCall, pipelineVars>>

\* jar.cleanExpiredCookies(): a domain left without cookies is dropped
JarCleanExpired ==
  /\ jar' = cleanExpiredCookies(jar, now)
  /\ jarDomains' = {h \in jarDomains :
                      ~(jar[DomainKey(FALSE, h)] # <<>> /\ jar'[DomainKey(FALSE, h)] = <<>>)}
  /\ upserted' = <<>>
  /\ purged' = [ran |-> TRUE, removed |-> Stored(jar) - Stored(jar')]
  /\ UNCHANGED <<sideVars, now, limiterVars, historyVars, registryVars, lastCall, pipelineVars>>

(* =========================== session registry =========================== *)
\* ids under which the bot registers sessions
SessionIds == {"default", "feed_session", "sitemap_session", "tournament_session"}

\* this.useSessionRotation
UseSessionRotation == TRUE

\* behavioralPatterns.sessionBehaviors (durations in ticks)
sessionBehaviors ==
  { [name |-> "short-visit", pageViewsMax |-> 3, sessionDurationMax |-> 60],
    [name |-> "medium-visit", pageViewsMax |-> 10, sessionDurationMax |-> 300],
    [name |-> "deep-visit", pageViewsMax |-> 30, sessionDurationMax |-> 1800] }

\* the behaviours a new session can draw
DrawnBehaviors == {b \in sessionBehaviors : b.pageViewsMax <= MaxPageViews}

\* new BrowserSession(): a new object with a drawn behaviour, no visits and an
\* empty cookie jar, registered under key id; held marks the object that the
\* request in flight got from getSession
BrowserSession(id, beh, t) ==
  [id |-> id, held |-> FALSE, behavior |-> beh,
   visitHistory |-> <<>>, visitCount |-> 0,
   sessionStart |-> t, lastVisitTime |-> t, lastRequestTime |-> 0,
   cookies |-> {}]

\* delete that leaves the registry as it is
DeleteNot(reg, id) == reg

\* this.sessions[id], `id in this.sessions`, assignment and delete; a new key
\* goes last, an assigned key keeps its place
Has(reg, id) == \E i \in 1..Len(reg) : reg[i].id = id
Lookup(reg, id) == reg[CHOOSE i \in 1..Len(reg) : reg[i].id = id]
Put(reg, s) ==
  IF Has(reg, s.id)
  THEN [i \in 1..Len(reg) |-> IF reg[i].id = s.id THEN s ELSE reg[i]]
  ELSE Append(reg, s)
Delete(reg, id) == SelectSeq(reg, LAMBDA s : s.id # id)

\* shouldRotateSession: page views, duration, or the 5% random rotation (rnd)
shouldRotateSession(s, t, rnd) ==
  \/ s.visitCount >= s.behavior.pageViewsMax
  \/ t - s.sessionStart >= s.behavior.sessionDurationMax
  \/ rnd

\* Array.prototype.sort by lastTime ascending; the sort is stable
RECURSIVE SortByLastTime(_)
InsertByLastTime(e, s) ==
  LET RECURSIVE Ins(_)
      Ins(r) == IF r = <<>> THEN <<e>>
                ELSE IF e.lastVisitTime <= Head(r).lastVisitTime THEN <<e>> \o r
                ELSE <<Head(r)>> \o Ins(Tail(r))
  IN Ins(s)
SortByLastTime(s) ==
  IF s = <<>> THEN <<>> ELSE InsertByLastTime(Head(s), SortByLastTime(Tail(s)))

\* cleanupOldSessions, first loop: evict the oldest while the counter exceeds
\* the cap; stops at the default session or when the list is used up
RECURSIVE EvictOldest(_, _, _)
EvictOldest(reg, active, sorted) ==
  IF active > MaxSessions /\ sorted # <<>> /\ Head(sorted).id # "default"
  THEN EvictOldest(Delete(reg, Head(sorted).id), active - 1, Tail(sorted))
  ELSE [reg |-> reg, active |-> active]

\* cleanupOldSessions, second loop over the ids listed before the first loop:
\* reading sessionStart of an id that is no longer registered throws
RECURSIVE EvictExpired(_, _, _, _)
EvictExpired(reg, active, ids, t) ==
  IF ids = <<>> THEN [reg |-> reg, active |-> active, threw |-> FALSE]
  ELSE IF Head(ids) = "default" THEN EvictExpired(reg, active, Tail(ids), t)
  ELSE IF ~Has(reg, Head(ids)) THEN [reg |-> reg, active |-> active, threw |-> TRUE]
  ELSE IF t - Lookup(reg, Head(ids)).sessionStart > SessionTtlTicks
       THEN EvictExpired(Delete(reg, Head(ids)), active - 1, Tail(ids), t)
       ELSE EvictExpired(reg, active, Tail(ids), t)

\* a cleanup whose second loop does not pass over the default session
cleanupOldSessionsByAge(reg, active, t) ==
  LET first == EvictOldest(reg, active, SortByLastTime(reg))
      kept == SelectSeq(first.reg, LAMBDA s : ~(t - s.sessionStart > SessionTtlTicks))
  IN [reg |-> kept, active |-> first.active - (Len(first.reg) - Len(kept)),
      threw |-> FALSE]

cleanupOldSessions(reg, active, t) ==
  LET sessionIds == [i \in 1..Len(reg) |-> reg[i].id]
      first == EvictOldest(reg, active, SortByLastTime(reg))
  IN EvictExpired(first.reg, first.active, sessionIds, t)

\* createNewSession(id)
createNewSession(reg, active, id, beh, t) ==
  LET reg1 == Put(reg, BrowserSession(id, beh, t))
      active1 == active + 1
  IN IF active1 > MaxSessions
     THEN cleanupOldSessions(reg1, active1, t)
     ELSE [reg |-> reg1, active |-> active1, threw |-> FALSE]

\* a getSession that constructs a session whether or not one is registered
getSessionAnew(useSessionRotation, reg, active, id, force, rnd, beh, t) ==
  LET c == createNewSession(reg, active, id, beh, t)
  IN [reg |-> c.reg, active |-> c.active, threw |-> c.threw,
      created |-> TRUE, ret |-> ~c.threw /\ Has(c.reg, id)]

\* getSession(id, forceCreate) under a setting of this.useSessionRotation: the
\* registry afterwards, whether the call threw, whether a session was
\* constructed, and whether a session is returned (this.sessions[id] is
\* undefined when id is not registered)
getSessionUnder(useSessionRotation, reg, active, id, force, rnd, beh, t) ==
  LET made(c) == [reg |-> c.reg, active |-> c.active, threw |-> c.threw,
                  created |-> TRUE, ret |-> ~c.threw /\ Has(c.reg, id)]
  IN IF ~Has(reg, id) \/ force
     THEN made(createNewSession(reg, active, id, beh, t))
     ELSE IF useSessionRotation /\ shouldRotateSession(Lookup(reg, id), t, rnd)
     THEN made(createNewSession(Delete(reg, id), active, id, beh, t))
     ELSE [reg |-> reg, active |-> active, threw |-> FALSE, created |-> FALSE,
           ret |-> TRUE]

\* getSession(id, forceCreate) of the scraper as it is configured
getSession(reg, active, id, force, rnd, beh, t) ==
  getSessionUnder(UseSessionRotation, reg, active, id, force, rnd, beh, t)

\* what a getSession(id, force) call did: whether the session registered under
\* id was due for rotation by its page views when the call was made, whether
\* the call threw, whether it returned a session other than the one registered
\* before, whether that session is unused, and the size of the registry it left
Called(id, force, c) ==
  LET was == Has(sessions, id)
      got == c.ret
  IN [made |-> TRUE,
      due |-> /\ ~force
              /\ was
              /\ Lookup(sessions, id).visitCount >= Lookup(sessions, id).behavior.pageViewsMax,
      threw |-> c.threw,
      replaced |-> got /\ c.created,
      fresh |-> /\ got
                /\ Lookup(c.reg, id).visitCount = 0
                /\ Lookup(c.reg, id).visitHistory = <<>>
                /\ Lookup(c.reg, id).cookies = {},
      size |-> Len(c.reg),
      status |-> "none"]

\* Math.random() < 0.05, the random rotation of shouldRotateSession
RandomRotation == {r \in BOOLEAN : r => activeSessions < MaxActive}

\* getSession as the rest of the bot calls it (the tournament lookup), between
\* two content fetches
ApiIds == {"default", "tournament_session"}

ApiGetSession(id) ==
  /\ pl.pc = "idle"
  /\ activeSessions < MaxActive
  /\ \E beh \in DrawnBehaviors, rnd \in RandomRotation :
       LET g == getSession(sessions, activeSessions, id, FALSE, rnd, beh, now) IN
       /\ sessions' = g.reg
       /\ activeSessions' = g.active
       /\ lastCall' = Called(id, FALSE, g)
  /\ UNCHANGED <<sideVars, now, historyVars, jarVars, limiterVars, pipelineVars>>

(* ============================ content pipeline =========================== *)
IdlePl == [op |-> None, stage |-> None, pc |-> "idle", wake |-> 0,
           limit |-> 0, feedWorks |-> FALSE]

NoFetch == [spent |-> 0, op |-> None, rejected |-> FALSE, result |-> <<>>,
            hit |-> FALSE, tried |-> <<>>, failed |-> {}, calls |-> 0, admissions |-> 0,
            page |-> [standard |-> 0, timed |-> FALSE, featured |-> 0],
            ioError |-> FALSE, cacheBefore |-> Absent, doneAt |-> 0]

NoPrev == [op |-> None, result |-> <<>>, doneAt |-> 0, ioError |-> FALSE]

Dataset(op) == op

\* the options each strategy passes to makeRequest
Options(stage) ==
  CASE stage = "feed" ->
         [sessionId |-> "feed_session", given |-> TRUE, requestType |-> "feed",
          actionType |-> "resourceFetch"]
    [] stage = "sitemap" ->
         [sessionId |-> "sitemap_session", given |-> TRUE, requestType |-> "sitemap",
          actionType |-> "resourceFetch"]
    [] OTHER ->
         [sessionId |-> "default", given |-> FALSE, requestType |-> "standard",
          actionType |-> "pageLoad"]

\* calculateWaitTime: nothing when the last request is more than 2000 ms back
\* (lastRequestTime is 0, the epoch, until the first visit)
calculateWaitTime(s, actionType, t) ==
  IF s.visitCount = 0 \/ t - s.lastRequestTime > 2 THEN {0}
  ELSE getRandomDelay(actionType)

\* recordVisit on the session object a request holds (every response sets a
\* cookie); an object that has left the registry is updated out of sight
recordVisit(reg, url, t) ==
  [i \in 1..Len(reg) |->
     IF reg[i].held
     THEN [reg[i] EXCEPT !.visitHistory = Append(@, url), !.visitCount = @ + 1,
                         !.lastVisitTime = t, !.lastRequestTime = t,
                         !.cookies = @ \cup {url}]
     ELSE reg[i]]

\* the request takes, and lets go of, the session object it works with
Hold(reg, id) == [i \in 1..Len(reg) |-> [reg[i] EXCEPT !.held = (reg[i].id = id)]]
Release(reg) == [i \in 1..Len(reg) |-> [reg[i] EXCEPT !.held = FALSE]]

\* the try/catch blocks of the fetches with the one around the matches request
\* taken away
CatchesButMatches(op, stage) == stage # "matches"

\* the try/catch blocks of the fetches: a failure of the strategy is caught
Catches(op, stage) == TRUE

\* the requests a fetch makes at most: one per strategy that goes to the network
Requests(op) == CASE op = "news" -> 3 [] op = "matches" -> 1 [] OTHER -> 2

\* the record of a fetch that starts; cost is what it adds to the requests the
\* fetches of the run can make
Begun(op, cost) ==
  [NoFetch EXCEPT !.spent = out.spent + cost, !.op = op,
                  !.cacheBefore = cache[Dataset(op)], !.doneAt = now]

\* fetches are started one after the other; one that misses the cache is
\* started while its requests fit the run
CanStart(op) == pl.pc = "idle"
CanFetch(op) == out.spent + Requests(op) <= MaxRequests

\* the fetch resolves with result; a fresh result is saved first
FinishFrom(o, result, save, fault) ==
  /\ out' = [o EXCEPT !.result = result, !.doneAt = now,
                      !.ioError = save /\ fault # "none"]
  /\ cache' = IF save
              THEN [cache EXCEPT ![Dataset(pl.op)] = saveToCache(@, result, now, fault)]
              ELSE cache
  /\ pl' = [pl EXCEPT !.pc = "return"]

Finish(result, save, fault) == FinishFrom(out, result, save, fault)

\* the fetch rejects
Reject ==
  /\ out' = [out EXCEPT !.rejected = TRUE, !.doneAt = now]
  /\ pl' = [pl EXCEPT !.pc = "return"]

\* the fetch resolves from the cache
Hit(op, result) ==
  /\ out' = [Begun(op, 0) EXCEPT !.hit = TRUE, !.result = result]
  /\ pl' = [IdlePl EXCEPT !.op = op, !.pc = "return"]

\* getLatestNews up to its first await
getLatestNews ==
  /\ CanStart("news")
  /\ LET c == loadFromCache(cache["news"], now) IN
     IF ~c.null
     THEN /\ Hit("news", TagFromCache(c.data))
          /\ UNCHANGED limiterVars
     ELSE /\ CanFetch("news")
          /\ \E w \in BOOLEAN :
               pl' = [IdlePl EXCEPT !.op = "news", !.stage = "direct", !.pc = "limit",
                                    !.feedWorks = w]
          /\ out' = [Begun("news", Requests("news")) EXCEPT !.tried = <<"direct">>]
          /\ RLEnterCore(1, Options("direct").requestType)
  /\ lastCall' = NoCall
  /\ UNCHANGED <<sideVars, now, historyVars, jarVars, registryVars, cache, prev>>

\* getUpcomingMatches(limit) up to its first await
getUpcomingMatches(limit) ==
  /\ CanStart("matches")
  /\ LET c == loadFromCache(cache["matches"], now) IN
     IF ~c.null
     THEN /\ Hit("matches", Slice(c.data, limit))
          /\ UNCHANGED limiterVars
     ELSE /\ CanFetch("matches")
          /\ pl' = [IdlePl EXCEPT !.op = "matches", !.stage = "matches", !.pc = "limit",
                                  !.limit = limit]
          /\ out' = [Begun("matches", Requests("matches")) EXCEPT !.tried = <<"matches">>]
          /\ RLEnterCore(1, Options("matches").requestType)
  /\ lastCall' = NoCall
  /\ UNCHANGED <<sideVars, now, historyVars, jarVars, registryVars, cache, prev>>

\* getTopTeams(limit) up to its first await: the dated rankings page is
\* requested with axios directly
getTopTeams(limit) ==
  /\ CanStart("teams")
  /\ LET c == loadFromCache(cache["teams"], now) IN
     IF ~c.null
     THEN Hit("teams", Slice(c.data, limit))
     ELSE /\ CanFetch("teams")
          /\ pl' = [IdlePl EXCEPT !.op = "teams", !.stage = "ranking", !.pc = "send",
                                  !.limit = limit]
          /\ out' = [Begun("teams", Requests("teams")) EXCEPT !.tried = <<"ranking">>, !.calls = 1]
  /\ lastCall' = NoCall
  /\ UNCHANGED <<sideVars, now, historyVars, jarVars, limiterVars, registryVars, cache, prev>>

\* the caller of the fetch takes what it resolved to
Resolved ==
  /\ pl.pc = "return"
  /\ pl' = IdlePl
  /\ prev' = IF out.op = "news" /\ ~out.rejected
             THEN [op |-> out.op, result |-> out.result, doneAt |-> out.doneAt,
                   ioError |-> out.ioError]
             ELSE NoPrev
  /\ out' = [NoFetch EXCEPT !.spent = out.spent]
  /\ lastCall' = NoCall
  /\ UNCHANGED <<sideVars, now, historyVars, jarVars, limiterVars, registryVars, cache>>

\* makeRequest once enforceRateLimit has resolved: the admission, getSession,
\* the headers and calculateWaitTime; a registry error or a missing session
\* fails the request
makeRequestAdmitted ==
  /\ pl.pc = "limit"
  /\ RLAdmitCore(1)
  /\ \E rnd \in RandomRotation, beh \in DrawnBehaviors :
       LET o == Options(pl.stage)
           g == getSession(sessions, activeSessions, o.sessionId, FALSE,
                           rnd, beh, now)
       IN /\ sessions' = IF g.ret THEN Hold(g.reg, o.sessionId) ELSE g.reg
          /\ activeSessions' = g.active
          /\ lastCall' = Called(o.sessionId, FALSE, g)
          /\ IF ~g.ret
             THEN /\ pl' = [pl EXCEPT !.pc = "fallback"]
                  /\ out' = [out EXCEPT !.failed = @ \cup {pl.stage}, !.admissions = @ + 1]
             ELSE \E d \in calculateWaitTime(Lookup(g.reg, o.sessionId), o.actionType, now) :
                    IF d > 0
                    THEN /\ pl' = [pl EXCEPT !.pc = "wait", !.wake = now + d]
                         /\ out' = [out EXCEPT !.admissions = @ + 1]
                    ELSE /\ pl' = [pl EXCEPT !.pc = "send"]
                         /\ out' = [out EXCEPT !.calls = @ + 1, !.admissions = @ + 1]
  /\ UNCHANGED <<sideVars, now, historyVars, jarVars, cache, prev>>

\* makeRequest once the human-like delay has passed: axios.get is called
makeRequestSend ==
  /\ pl.pc = "wait"
  /\ now >= pl.wake
  /\ pl' = [pl EXCEPT !.pc = "send", !.wake = 0]
  /\ out' = [out EXCEPT !.calls = @ + 1]
  /\ lastCall' = NoCall
  /\ UNCHANGED <<sideVars, now, historyVars, jarVars, limiterVars, registryVars, cache, prev>>

Outcomes == {"ok", "forbidden", "error"}

\* the records a strategy parses from a successful response
Parsed(stage, page, items, matches, limit, t) ==
  CASE stage = "direct" -> ParseNewsPage(page, t)
    [] stage = "feed" -> ParseFeed(items)
    [] stage = "sitemap" -> ParseSitemap(items)
    [] OTHER -> ParseMatches(matches, limit)

\* makeRequest once axios.get has settled, and the strategy's use of the
\* response: the visit is recorded, a 403 of a request that named its session
\* unregisters that session, the records are parsed and, if any, saved
makeRequestSettled(outcome, page, items, matches, fault) ==
  /\ pl.pc = "send"
  /\ pl.op \in {"news", "matches"}
  /\ pl.stage = "feed" => (pl.feedWorks <=> (outcome = "ok" /\ items >= 1))
  /\ LET o == Options(pl.stage)
         records == Parsed(pl.stage, page, items, matches, pl.limit, now)
         seen == IF pl.stage = "direct" /\ outcome = "ok"
                 THEN [out EXCEPT !.page = page] ELSE out
     IN /\ sessions' = Release(
                          CASE outcome = "ok" ->
                                 recordVisit(sessions, pl.stage, now)
                            [] outcome = "forbidden" /\ o.given ->
                                 Delete(sessions, o.sessionId)
                            [] OTHER -> sessions)
        /\ activeSessions' = IF outcome = "forbidden" /\ o.given
                             THEN activeSessions - 1 ELSE activeSessions
        /\ IF outcome = "ok" /\ Len(records) > 0
           THEN FinishFrom(seen, records, TRUE, fault)
           ELSE /\ pl' = [pl EXCEPT !.pc = "fallback"]
                /\ out' = [seen EXCEPT !.failed = @ \cup {pl.stage}]
                /\ cache' = cache
  /\ lastCall' = [NoCall EXCEPT !.status = outcome]
  /\ UNCHANGED <<sideVars, now, historyVars, jarVars, limiterVars, prev>>

\* the strategy before is started once more
AttemptAgain(tried, stage) == Append(tried, tried[Len(tried)])

\* the strategies of a fetch, in the order in which they were started
Attempt(tried, stage) == Append(tried, stage)

\* a fallback strategy that opens its own session: getSession(id, true), then
\* makeRequest up to its first await
OpenStrategy(stage) ==
  \E beh \in DrawnBehaviors :
    LET o == Options(stage)
        g == getSession(sessions, activeSessions, o.sessionId, TRUE,
                        FALSE, beh, now)
    IN /\ sessions' = g.reg
       /\ activeSessions' = g.active
       /\ lastCall' = Called(o.sessionId, TRUE, g)
       /\ out' = [out EXCEPT !.tried = Attempt(@, stage),
                             !.failed = IF g.threw THEN @ \cup {stage} ELSE @]
       /\ IF g.threw
          THEN /\ pl' = [pl EXCEPT !.stage = stage, !.pc = "fallback"]
               /\ UNCHANGED limiterVars
          ELSE /\ pl' = [pl EXCEPT !.stage = stage, !.pc = "limit"]
               /\ RLEnterCore(1, o.requestType)
       /\ cache' = cache

\* the fetch goes on after a failed strategy, in the same turn: the next
\* strategy, or the placeholder records
NextStrategy(fault) ==
  /\ pl.pc = "fallback"
  /\ IF ~Catches(pl.op, pl.stage)
     THEN /\ Reject
          /\ lastCall' = NoCall
          /\ UNCHANGED <<limiterVars, registryVars, cache>>
     ELSE CASE pl.stage = "direct" -> OpenStrategy("feed")
            [] pl.stage = "feed" -> OpenStrategy("sitemap")
            [] pl.stage = "sitemap" ->
                 /\ LET o == [out EXCEPT !.tried = Append(@, "thirdParty")]
                        articles == getNewsFromThirdParty(now)
                    IN IF Len(articles) > 0
                       THEN FinishFrom(o, articles, TRUE, fault)
                       ELSE FinishFrom(o, StaticNews(now), FALSE, "none")
                 /\ lastCall' = NoCall
                 /\ UNCHANGED <<limiterVars, registryVars>>
            [] pl.stage = "matches" ->
                 /\ Finish(StaticMatches(now), FALSE, "none")
                 /\ lastCall' = NoCall
                 /\ UNCHANGED <<limiterVars, registryVars>>
            [] OTHER ->
                 /\ Finish(StaticTeams, FALSE, "none")
                 /\ lastCall' = NoCall
                 /\ UNCHANGED <<limiterVars, registryVars>>
  /\ UNCHANGED <<sideVars, now, historyVars, jarVars, prev>>

\* getTopTeams once a rankings request has settled: teams found are saved and
\* returned; otherwise the generic page is requested, then the placeholder
getTopTeamsSettled(outcome, page, fault) ==
  /\ pl.pc = "send"
  /\ pl.op = "teams"
  /\ LET teams == ParseRanking(page, pl.limit) IN
     IF outcome = "ok" /\ Len(teams) > 0
     THEN Finish(teams, TRUE, fault)
     ELSE /\ cache' = cache
          /\ IF ~Catches(pl.op, pl.stage)
             THEN Reject
             ELSE IF pl.stage = "ranking"
             THEN /\ pl' = [pl EXCEPT !.stage = "rankingGeneric"]
                  /\ out' = [out EXCEPT !.failed = @ \cup {pl.stage},
                                        !.tried = Append(@, "rankingGeneric"),
                                        !.calls = @ + 1]
             ELSE /\ pl' = [pl EXCEPT !.pc = "fallback"]
                  /\ out' = [out EXCEPT !.failed = @ \cup {pl.stage}]
  /\ lastCall' = NoCall
  /\ UNCHANGED <<sideVars, now, historyVars, jarVars, limiterVars, registryVars, prev>>

(* ====================== page requests of one caller ====================== *)
\* the session ids the caller names, and the pages it asks for
VisitIds == {"feed_session", "sitemap_session"}
\* the session id of a caller that keeps to one session
OwnIds == {"feed_session"}
VisitUrls ==
  { [host |-> <<"example", "com">>, path |-> <<"/">>, https |-> TRUE],
    [host |-> <<"example", "com">>, path |-> <<"/">>, https |-> FALSE],
    [host |-> <<"example", "com">>, path |-> <<"/", "news">>, https |-> TRUE],
    [host |-> <<"localhost">>, path |-> <<"/">>, https |-> TRUE] }

\* the set-cookie headers of a response to the caller
VisitHeaders ==
  { <<>>,
    <<Directive("sid", "1", <<>>)>>,
    <<Directive("sid", "1", <<>>), Directive("sid", "2", <<>>)>>,
    <<Directive("sid", "1", <<PathAttr(<<"/", "news">>)>>)>>,
    <<Directive("sid", "1", <<MaxAgeAttr(1)>>)>>,
    <<Directive("sid", "1", <<ExpiresAttr(InvalidDate)>>)>>,
    <<Directive("sid", "1", <<SecureAttr>>)>> }

\* no request yet; jars holds this.cookies of the session registered under each
\* id, received the names and values of the cookies that the responses under
\* each id have set so far
NoRequest == [made |-> FALSE, ok |-> FALSE, id |-> None, url |-> None, set |-> <<>>]
NoVisit ==
  [pc |-> "idle", n |-> 0, id |-> None, url |-> None, at |-> 0, kept |-> FALSE,
   cookieHeader |-> <<>>, jars |-> [i \in VisitIds |-> EmptyJar],
   received |-> [i \in VisitIds |-> {}], before |-> NoRequest]

\* a prepareRequestHeaders that takes the Cookie header from the jar that all
\* sessions share
prepareRequestHeadersShared(cookies, globalCookieJar, url, t) ==
  getCookieString(globalCookieJar, url, t)

\* session.prepareRequestHeaders(url, options): the Cookie header is the cookie
\* string of the session's own jar, this.cookies
prepareRequestHeaders(cookies, globalCookieJar, url, t) ==
  getCookieString(cookies, url, t)

\* makeRequest(url, {sessionId: id}) up to its first await, in enforceRateLimit
VisitEnter(id, url) ==
  /\ visit.pc = "idle"
  /\ visit.n < MaxVisits
  /\ RLEnterCore(1, "standard")
  /\ visit' = [visit EXCEPT !.pc = "limit", !.n = @ + 1, !.id = id, !.url = url,
                             !.cookieHeader = <<>>, !.kept = FALSE]
  /\ lastCall' = NoCall
  /\ UNCHANGED <<now, historyVars, registryVars, pipelineVars, jarVars, tour, bot, draw, race,
                 conf, wrapper>>

\* makeRequest once enforceRateLimit has resolved: getSession, then
\* session.prepareRequestHeaders(url, options) with the Cookie header of the
\* session's jar; a registry error or a missing session fails the request
VisitAdmitted ==
  /\ visit.pc = "limit"
  /\ RLAdmitCore(1)
  /\ \E rnd \in RandomRotation, beh \in DrawnBehaviors :
       LET g == getSession(sessions, activeSessions, visit.id, FALSE, rnd, beh, now)
           cookies == IF g.created THEN EmptyJar ELSE visit.jars[visit.id]
           jars == [i \in VisitIds |->
                      IF ~Has(g.reg, i) THEN EmptyJar
                      ELSE IF i = visit.id THEN cookies ELSE visit.jars[i]]
       IN /\ sessions' = IF g.ret THEN Hold(g.reg, visit.id) ELSE g.reg
          /\ activeSessions' = g.active
          /\ lastCall' = Called(visit.id, FALSE, g)
          /\ IF ~g.ret
             THEN visit' = [visit EXCEPT !.pc = "idle", !.jars = jars,
                                         !.before = [NoRequest EXCEPT !.made = TRUE,
                                                       !.id = visit.id, !.url = visit.url]]
             ELSE visit' = [visit EXCEPT !.pc = "sent", !.jars = jars, !.at = now,
                                         !.kept = ~g.created,
                                         !.cookieHeader =
                                            prepareRequestHeaders(cookies, jar,
                                                                  visit.url, now)]
  /\ UNCHANGED <<now, historyVars, pipelineVars, jarVars, tour, bot, draw, race,
                 conf, wrapper>>

\* a makeRequest that goes on to record the visit whatever axios.get did
VisitedAnyway(outcome) == TRUE

\* the statements after `await axios.get` (recordVisit, the copy into the
\* global jar) run when the promise resolved, not when it rejected
Visited(outcome) == outcome = "ok"

\* makeRequest once axios.get has settled: session.recordVisit(url, headers)
\* with the set-cookie headers of the response (purge: the 10% draw of
\* cleanExpiredCookies) and the copy into the global jar; a 403 of a request
\* that named its session unregisters that session
VisitSettled(outcome, headers, purge) ==
  /\ visit.pc = "sent"
  /\ LET list == [i \in 1..Len(headers) |-> parseCookie(headers[i], visit.url.host, now)]
         given == visit.id # "default"
         stored == SetAll(visit.jars[visit.id], list)
     IN /\ sessions' = Release(
                          CASE Visited(outcome) -> recordVisit(sessions, visit.url, now)
                            [] outcome = "forbidden" /\ given -> Delete(sessions, visit.id)
                            [] OTHER -> sessions)
        /\ activeSessions' = IF outcome = "forbidden" /\ given
                             THEN activeSessions - 1 ELSE activeSessions
        /\ visit' = [visit EXCEPT
                       !.pc = "idle",
                       !.jars = CASE Visited(outcome) ->
                                     [@ EXCEPT ![visit.id] =
                                        IF purge THEN cleanExpiredCookies(stored, now)
                                        ELSE stored]
                                  [] outcome = "forbidden" /\ given ->
                                     [@ EXCEPT ![visit.id] = EmptyJar]
                                  [] OTHER -> @,
                       !.received[visit.id] =
                          IF Visited(outcome)
                          THEN @ \cup {[name |-> list[n].name, value |-> list[n].value] :
                                         n \in 1..Len(list)}
                          ELSE @,
                       !.before = [made |-> TRUE, ok |-> outcome = "ok", id |-> visit.id,
                                   url |-> visit.url,
                                   set |-> IF Visited(outcome) THEN list ELSE <<>>]]
        /\ IF Visited(outcome) /\ list # <<>>
           THEN /\ jar' = SetAll(jar, list)
                /\ jarDomains' = jarDomains \cup {visit.url.host}
                /\ upserted' = list
           ELSE UNCHANGED <<jar, jarDomains, upserted>>
        /\ purged' = NoPurge
  /\ lastCall' = [NoCall EXCEPT !.status = outcome]
  /\ UNCHANGED <<now, historyVars, limiterVars, pipelineVars, tour, bot, draw, race,
                 conf, wrapper>>

(* ================= concurrent requests under one session id ============== *)
\* callers whose makeRequest calls overlap, and the session id they name
RaceCallers == 1..MaxRacers
RaceIds == {"feed_session"}

\* a caller between calls; obj is the session object its call holds (0: none)
IdleRacer == [pc |-> "idle", id |-> None, obj |-> 0]

\* no response was handled in the step
NoSettle == [done |-> FALSE, ok |-> FALSE, id |-> None, obj |-> 0, registered |-> 0]

\* the calls in progress; the number of calls started; for each id the session
\* object registered under it (objects are numbered as they are constructed,
\* 0: none); the number of objects constructed; and how the response of the
\* last step was handled
NoRace ==
  [calls |-> [c \in RaceCallers |-> IdleRacer], n |-> 0,
   serial |-> [i \in RaceIds |-> 0], made |-> 0, settled |-> NoSettle]

\* the objects registered under the ids after a getSession(id) call
Registered(serial, made, id, g) ==
  [i \in RaceIds |->
     IF ~Has(g.reg, i) THEN 0
     ELSE IF i = id /\ g.created THEN made + 1
     ELSE serial[i]]

\* a strategy calls makeRequest(url, {sessionId: id}), after getSession(id,
\* true) when it opens its own session (force), and runs up to the first
\* await of enforceRateLimit; an error of the registry ends the strategy
RaceEnter(c, id, force) ==
  /\ race.calls[c].pc = "idle"
  /\ race.n < MaxRaceCalls
  /\ \E beh \in DrawnBehaviors :
       LET g == IF force
                THEN getSession(sessions, activeSessions, id, TRUE, FALSE, beh, now)
                ELSE [reg |-> sessions, active |-> activeSessions, threw |-> FALSE,
                      created |-> FALSE, ret |-> TRUE]
           counted == [race EXCEPT !.n = @ + 1,
                                   !.serial = Registered(@, race.made, id, g),
                                   !.made = IF g.created THEN @ + 1 ELSE @,
                                   !.settled = NoSettle]
       IN /\ sessions' = g.reg
          /\ activeSessions' = g.active
          /\ lastCall' = IF force THEN Called(id, TRUE, g) ELSE NoCall
          /\ IF g.threw
             THEN /\ race' = counted
                  /\ UNCHANGED limiterVars
             ELSE /\ race' = [counted EXCEPT !.calls[c] = [IdleRacer EXCEPT !.pc = "limit",
                                                                            !.id = id]]
                  /\ RLEnterCore(c, "feed")
  /\ UNCHANGED <<now, historyVars, pipelineVars, jarVars, visit, tour, bot, draw,
                 conf, wrapper>>

\* makeRequest once enforceRateLimit has resolved: getSession(id) gives the
\* call its session object, and the call then waits for its delay and for
\* axios.get; a registry error or a missing session fails the request
RaceAdmitted(c) ==
  /\ race.calls[c].pc = "limit"
  /\ RLAdmitCore(c)
  /\ \E rnd \in RandomRotation, beh \in DrawnBehaviors :
       LET id == race.calls[c].id
           g == getSession(sessions, activeSessions, id, FALSE, rnd, beh, now)
           serial == Registered(race.serial, race.made, id, g)
       IN /\ sessions' = g.reg
          /\ activeSessions' = g.active
          /\ lastCall' = Called(id, FALSE, g)
          /\ race' = [race EXCEPT
                        !.serial = serial,
                        !.made = IF g.created THEN @ + 1 ELSE @,
                        !.settled = NoSettle,
                        !.calls[c] = IF g.ret
                                     THEN [pc |-> "flight", id |-> id, obj |-> serial[id]]
                                     ELSE IdleRacer]
  /\ UNCHANGED <<now, historyVars, pipelineVars, jarVars, visit, tour, bot, draw,
                 conf, wrapper>>

\* makeRequest once axios.get has settled: session.recordVisit on the object
\* the call holds, registered or not; a 403 deletes this.sessions[id] and
\* decrements the counter, whatever is registered under id by then
RaceSettled(c, outcome) ==
  /\ race.calls[c].pc = "flight"
  /\ LET id == race.calls[c].id
         obj == race.calls[c].obj
     IN /\ sessions' = CASE outcome = "ok" /\ race.serial[id] = obj ->
                               Release(recordVisit(Hold(sessions, id), "feed", now))
                          [] outcome = "forbidden" -> Delete(sessions, id)
                          [] OTHER -> sessions
        /\ activeSessions' = IF outcome = "forbidden"
                             THEN activeSessions - 1 ELSE activeSessions
        /\ race' = [race EXCEPT
                      !.calls[c] = IdleRacer,
                      !.serial[id] = IF outcome = "forbidden" THEN 0 ELSE @,
                      !.settled = [done |-> TRUE, ok |-> outcome = "ok", id |-> id,
                                   obj |-> obj, registered |-> race.serial[id]]]
  /\ lastCall' = [NoCall EXCEPT !.status = outcome]
  /\ UNCHANGED <<now, historyVars, limiterVars, pipelineVars, jarVars, visit, tour, bot,
                 draw,
                 conf, wrapper>>

(* ========================== tournament lookup =========================== *)
\* the methods of getCurrentTournament and getDynamicCurrentTournament, in the
\* order in which they are tried
Methods == <<"events", "matches", "feed", "esportsguide", "liquipedia", "hltvApi">>
MethodAfter(m) ==
  LET i == CHOOSE k \in 1..Len(Methods) : Methods[k] = m
  IN IF i < Len(Methods) THEN Methods[i + 1] ELSE None

\* the session each method's request runs under, and whether it names it
MethodSession(m) ==
  CASE m = "events" -> [sessionId |-> "tournament_session", given |-> TRUE]
    [] m = "esportsguide" -> [sessionId |-> "api_esportsguide_session", given |-> TRUE]
    [] m = "liquipedia" -> [sessionId |-> "api_liquipedia_session", given |-> TRUE]
    [] m = "hltvApi" -> [sessionId |-> "hltv_api_session", given |-> TRUE]
    [] OTHER -> [sessionId |-> "default", given |-> FALSE]

\* the names a page or an API answer yields: none (or an empty one), or a name
NoName == ""
TournamentNames == {NoName, "ESL One Cologne"}

\* the lookup hands on whatever name it found
OrNothing(name) == name

\* `name || "CS Tournament"`, `if (!tournamentName) tournamentName = "CS Tournament"`
OrGeneric(name) == IF name = NoName THEN "CS Tournament" ELSE name

\* the date-based estimate at the end of getDynamicCurrentTournament
EstimateByDate(may2025) ==
  IF may2025 THEN "IEM Dallas 2025" ELSE "Major Championship 2026"

\* the tournament cache file holds {name, timestamp} as data
TournamentData(name, t) == [name |-> name, timestamp |-> t]

NoLookup ==
  [pc |-> "idle", method |-> None, n |-> 0, may2025 |-> FALSE, file |-> Absent,
   returned |-> FALSE, rejected |-> FALSE, result |-> NoName, fromCache |-> FALSE]

\* getCurrentTournament resolves with OrGeneric(name) after saving it
TourReturn(name, fault) ==
  tour' = [tour EXCEPT !.pc = "idle", !.method = None, !.returned = TRUE,
                       !.result = OrGeneric(name),
                       !.file = saveToCache(@, TournamentData(OrGeneric(name), now),
                                            now, fault)]

\* makeRequest of a method, from getSession to the settled response: the
\* registry afterwards and whether a response came back
MethodRequest(id, given, rnd, beh, outcome) ==
  LET g == getSession(sessions, activeSessions, id, FALSE, rnd, beh, now)
  IN IF ~g.ret THEN [reg |-> g.reg, active |-> g.active, ok |-> FALSE]
     ELSE CASE outcome = "ok" ->
                 [reg |-> Release(recordVisit(Hold(g.reg, id), "tournament", now)),
                  active |-> g.active, ok |-> TRUE]
            [] outcome = "forbidden" /\ given ->
                 [reg |-> Delete(g.reg, id), active |-> g.active - 1, ok |-> FALSE]
            [] OTHER -> [reg |-> g.reg, active |-> g.active, ok |-> FALSE]

\* getCurrentTournament up to its first await: the cache, fresh for less than
\* the tournament TTL, answers; otherwise the first method is opened
TourStart(may2025) ==
  /\ tour.pc = "idle"
  /\ tour.n < MaxLookups
  /\ LET cached == loadFromCache(tour.file, now)
         begun == [tour EXCEPT !.n = @ + 1, !.may2025 = may2025, !.returned = FALSE,
                               !.result = NoName, !.fromCache = FALSE]
     IN IF cachedTournamentUsed(CacheTTLTicks, TournamentTtlTicks, tour.file, now)
        THEN tour' = [begun EXCEPT !.returned = TRUE, !.fromCache = TRUE,
                                   !.result = OrGeneric(cached.data.name)]
        ELSE tour' = [begun EXCEPT !.pc = "open", !.method = "events"]
  /\ lastCall' = NoCall
  /\ UNCHANGED <<now, limiterVars, historyVars, registryVars, pipelineVars, jarVars,
                 visit, bot, draw, race,
                 conf, wrapper>>

\* a method up to the await of its makeRequest: the session it looks up (the
\* forced one of liquipedia, the Firefox one of hltvApi), or, in May 2025, the
\* answer of getDynamicCurrentTournament; an error skips the method
TourOpen(rnd, beh, firefox, fault) ==
  /\ tour.pc = "open"
  /\ lastCall' = NoCall
  /\ LET m == tour.method
         o == MethodSession(m)
         g == getSession(sessions, activeSessions, o.sessionId, m = "liquipedia",
                         rnd, beh, now)
     IN IF ~o.given
        THEN /\ tour' = [tour EXCEPT !.pc = "await"]
             /\ UNCHANGED registryVars
        ELSE IF m = "esportsguide" /\ tour.may2025
        THEN /\ TourReturn("IEM Dallas 2025", fault)
             /\ UNCHANGED registryVars
        ELSE /\ activeSessions' = g.active
             /\ sessions' = IF m = "hltvApi" /\ g.ret /\ ~firefox
                            THEN Put(Delete(g.reg, o.sessionId),
                                     BrowserSession(o.sessionId, beh, now))
                            ELSE g.reg
             /\ IF g.ret
                THEN tour' = [tour EXCEPT !.pc = "await"]
                ELSE IF MethodAfter(m) = None
                THEN TourReturn(EstimateByDate(tour.may2025), fault)
                ELSE tour' = [tour EXCEPT !.method = MethodAfter(m)]
  /\ UNCHANGED <<now, limiterVars, historyVars, pipelineVars, jarVars, visit, bot, draw, race,
                 conf, wrapper>>

\* the request of a method has settled: a name that was found is the answer
\* (the two APIs that list events answer with the name of the first event,
\* whatever it is); otherwise the next method, and after the last one the
\* estimate by date
TourSettled(rnd, beh, outcome, listed, name, fault) ==
  /\ tour.pc = "await"
  /\ lastCall' = NoCall
  /\ LET m == tour.method
         o == MethodSession(m)
         r == MethodRequest(o.sessionId, o.given, rnd, beh, outcome)
         answers == IF m \in {"esportsguide", "hltvApi"} THEN r.ok /\ listed
                    ELSE r.ok /\ name # NoName
     IN /\ sessions' = r.reg
        /\ activeSessions' = r.active
        /\ IF answers THEN TourReturn(OrNothing(name), fault)
           ELSE IF MethodAfter(m) = None
           THEN TourReturn(EstimateByDate(tour.may2025), fault)
           ELSE tour' = [tour EXCEPT !.pc = "open", !.method = MethodAfter(m)]
  /\ UNCHANGED <<now, limiterVars, historyVars, pipelineVars, jarVars, visit, bot, draw, race,
                 conf, wrapper>>

(* ================================ index.js =============================== *)
\* the urls of the articles that getLatestNews can return, and its results: a
\* list names a url once
ArticleUrls == {"a", "b", "c"}
FetchedLists ==
  {l \in UNION {[1..n -> ArticleUrls] : n \in 0..MaxFetched} :
     \A i, j \in 1..Len(l) : l[i] = l[j] => i = j}

\* cache/posted_articles.json: missing, unreadable, or {articles}
NoPostedFile == [state |-> "absent", articles |-> <<>>]
TornPostedFile == [state |-> "unreadable", articles |-> <<>>]
PostedFile(articles) == [state |-> "entry", articles |-> articles]

\* array.slice(array.length - n) of an array longer than n
LastOf(list, n) == SubSeq(list, Len(list) - n + 1, Len(list))

\* `if (list.length > n) list = list.slice(list.length - n)`
KeepLast(list, n) == IF Len(list) > n THEN LastOf(list, n) ELSE list

\* lastPostedArticles (the urls), the file, the number of messages the channel
\* got for each url, and the updates and restarts so far
NoBot ==
  [lastPostedArticles |-> <<>>, file |-> NoPostedFile,
   channel |-> [u \in ArticleUrls |-> 0], updates |-> 0, restarts |-> 0]

\* savePostedArticles: the list is cut to twice maxArticlesToKeep and written;
\* an I/O error is caught
savePostedArticles(list, file, fault) ==
  LET kept == KeepLast(list, MaxArticlesToKeep * 2)
  IN [list |-> kept,
      file |-> CASE fault = "none" -> PostedFile(kept)
                 [] fault = "failed" -> file
                 [] OTHER -> TornPostedFile]

\* sendNewsUpdates with the articles that getLatestNews returned: those whose
\* url is not in lastPostedArticles are added to it, the list is cut to
\* maxArticlesToKeep and saved, and they are sent one by one; a send that
\* fails ends the update (sends: the messages that get through)
sendNewsUpdates(articles, fault, sends) ==
  /\ bot.updates < MaxUpdates
  /\ LET newArticles == SelectSeq(articles,
                                  LAMBDA a : a \notin Range(bot.lastPostedArticles))
         saved == savePostedArticles(
                    KeepLast(bot.lastPostedArticles \o newArticles, MaxArticlesToKeep),
                    bot.file, fault)
         sent == SubSeq(newArticles, 1, Min(sends, Len(newArticles)))
     IN IF newArticles = <<>>
        THEN bot' = [bot EXCEPT !.updates = @ + 1]
        ELSE bot' = [bot EXCEPT !.updates = @ + 1,
                                !.lastPostedArticles = saved.list,
                                !.file = saved.file,
                                !.channel = [u \in ArticleUrls |->
                                               IF u \in Range(sent) THEN @[u] + 1 ELSE @[u]]]
  /\ UNCHANGED <<now, limiterVars, historyVars, registryVars, lastCall, pipelineVars,
                 jarVars, visit, tour, draw, race,
                 conf, wrapper>>

\* the bot is started again: loadPostedArticles reads the file
BotReady ==
  /\ bot.restarts < MaxRestarts
  /\ bot' = [bot EXCEPT !.restarts = @ + 1,
                        !.lastPostedArticles =
                           IF bot.file.state = "entry" THEN bot.file.articles ELSE <<>>]
  /\ UNCHANGED <<now, limiterVars, historyVars, registryVars, lastCall, pipelineVars,
                 jarVars, visit, tour, draw, race,
                 conf, wrapper>>

(* ============================ random selection =========================== *)
\* a weight that is not set
Unset == 0

\* the catalogs of profiles: a profile has its place in the catalog as name, a
\* weight or none, and the content types it is for
Profile(i, weight, forTypes) == [name |-> i, weight |-> weight, forTypes |-> forTypes]
ForTypes == {{}, {"feed"}}
ContentTypes == {None, "sitemap", "feed"}
Catalogs ==
  UNION {{[i \in 1..n |-> Profile(i, w[i], f[i])] :
            w \in [1..n -> 0..MaxWeight], f \in [1..n -> ForTypes]} : n \in 1..MaxProfiles}

\* `profile.weight || 1`, and a reading of it that takes no weight as none
weightOrNone(profile) == profile.weight
weightOrOne(profile) == IF profile.weight = Unset THEN 1 ELSE profile.weight

\* profiles.reduce((sum, profile) => sum + (profile.weight || 1), 0)
RECURSIVE totalWeight(_)
totalWeight(profiles) ==
  IF profiles = <<>> THEN 0
  ELSE weightOrOne(Head(profiles)) + totalWeight(Tail(profiles))

\* Math.random() * totalWeight in halves: 0, 1/2, 1, .., totalWeight - 1/2
HalfSteps(total) == 0..(2 * total - 1)

\* the walk over the profiles from the i-th on: the first profile at which
\* randomValue <= weightSum, else the first profile of the catalog
RECURSIVE walk(_, _, _, _)
walk(profiles, half, i, weightSum) ==
  IF i > Len(profiles) THEN profiles[1]
  ELSE LET sum == weightSum + weightOrOne(profiles[i])
       IN IF half <= 2 * sum THEN profiles[i] ELSE walk(profiles, half, i + 1, sum)

\* scraper.js getRandomBrowserProfile with Math.random() * totalWeight = half/2
getRandomBrowserProfile(browserProfiles, half) == walk(browserProfiles, half, 1, 0)

\* Math.floor(Math.random() * n) with Math.random() = q/Grid (q = Grid: the
\* largest number below 1)
Floor(q, n) == IF q = Grid THEN n - 1 ELSE (q * n) \div Grid

\* BrowserSession.getRandomProfile over the catalog of its type: a crawler for
\* a content type is drawn evenly among the profiles for that type, or is the
\* first crawler; otherwise the weighted walk
getRandomProfile(profiles, type, contentType, half, q) ==
  IF type = "crawler" /\ contentType # None
  THEN LET validProfiles == SelectSeq(profiles, LAMBDA p : contentType \in p.forTypes)
       IN IF Len(validProfiles) > 0
          THEN validProfiles[Floor(q, Len(validProfiles)) + 1]
          ELSE profiles[1]
  ELSE walk(profiles, half, 1, 0)

\* JavaScript numbers: the integers and the two infinities
Num(v) == [inf |-> 0, v |-> v]
PosInf == [inf |-> 1, v |-> 0]
NegInf == [inf |-> 0 - 1, v |-> 0]
Less(a, b) == a.inf < b.inf \/ (a.inf = 0 /\ b.inf = 0 /\ a.v < b.v)
MathMinSkipped(a, b) == b
MathMin(a, b) == IF Less(b, a) THEN b ELSE a
MathMax(a, b) == IF Less(a, b) THEN b ELSE a

\* a pattern that names no distribution of getRandomDelay's switch takes the
\* default branch
UniformPattern == [minDelay |-> 100, maxDelay |-> 200, distribution |-> "uniform"]
PatternTypes == {"pageLoad", "resourceFetch", "subsequentRequests", "other"}
DelayPatterns == {timingPatterns(p) : p \in PatternTypes} \cup {UniformPattern}

\* Math.round of the Box-Muller value: any integer, or an infinity when
\* Math.random() is 0; Math.round(-Math.log(Math.random()) / lambda): no
\* negative number
AroundBounds(pattern) ==
  {pattern.minDelay - 1, pattern.minDelay, pattern.minDelay + 1,
   pattern.maxDelay - 1, pattern.maxDelay, pattern.maxDelay + 1}
RawDelays(pattern) ==
  CASE pattern.distribution = "normal" ->
         {NegInf, PosInf, Num(0 - 100), Num(0), Num(pattern.mean)}
           \cup {Num(v) : v \in AroundBounds(pattern)}
    [] pattern.distribution = "exponential" ->
         {PosInf, Num(0)} \cup {Num(v) : v \in AroundBounds(pattern)}
    [] OTHER -> {Num(0)}

\* the sub-pattern of a mixed pattern: the first at which randomValue <=
\* weightSum, else the first one
RECURSIVE selectedPattern(_, _, _, _)
selectedPattern(patterns, half, i, weightSum) ==
  IF i > Len(patterns) THEN patterns[1]
  ELSE LET sum == weightSum + patterns[i].weight
       IN IF half <= 2 * sum THEN patterns[i]
          ELSE selectedPattern(patterns, half, i + 1, sum)

RECURSIVE patternsWeight(_)
patternsWeight(patterns) ==
  IF patterns = <<>> THEN 0 ELSE Head(patterns).weight + patternsWeight(Tail(patterns))

\* the delay before the clamp (raw: the rounded value of the normal and the
\* exponential branch; half, q: the draws of the other branches)
delayDrawn(pattern, raw, half, q) ==
  CASE pattern.distribution \in {"normal", "exponential"} -> raw
    [] pattern.distribution = "mixed" ->
         LET p == selectedPattern(pattern.patterns, half, 1, 0)
         IN Num(Floor(q, p.max - p.min + 1) + p.min)
    [] OTHER -> Num(Floor(q, pattern.maxDelay - pattern.minDelay + 1) + pattern.minDelay)

\* getRandomDelay in milliseconds:
\* Math.max(pattern.minDelay, Math.min(pattern.maxDelay, delay))
getRandomDelayMs(pattern, raw, half, q) ==
  MathMax(Num(pattern.minDelay),
          MathMin(Num(pattern.maxDelay), delayDrawn(pattern, raw, half, q)))

\* the last random selection: the function, its catalog or pattern, the draws
\* and what it returned
NoDraw ==
  [n |-> 0, fn |-> None, profiles |-> <<>>, type |-> None, contentType |-> None,
   half |-> 0, q |-> 0, pattern |-> UniformPattern, raw |-> Num(0),
   profile |-> Profile(0, Unset, {}), delay |-> Num(0)]

DrawBrowserProfile(browserProfiles, half) ==
  /\ draw.n < MaxDraws
  /\ half \in HalfSteps(totalWeight(browserProfiles))
  /\ draw' = [NoDraw EXCEPT !.n = draw.n + 1, !.fn = "getRandomBrowserProfile",
                            !.profiles = browserProfiles, !.half = half,
                            !.profile = getRandomBrowserProfile(browserProfiles, half)]
  /\ UNCHANGED <<now, limiterVars, historyVars, registryVars, lastCall, pipelineVars,
                 jarVars, visit, tour, bot, race,
                 conf, wrapper>>

DrawProfile(profiles, type, contentType, half, q) ==
  /\ draw.n < MaxDraws
  /\ half \in HalfSteps(totalWeight(profiles))
  /\ draw' = [NoDraw EXCEPT !.n = draw.n + 1, !.fn = "getRandomProfile",
                            !.profiles = profiles, !.type = type,
                            !.contentType = contentType, !.half = half, !.q = q,
                            !.profile = getRandomProfile(profiles, type, contentType, half, q)]
  /\ UNCHANGED <<now, limiterVars, historyVars, registryVars, lastCall, pipelineVars,
                 jarVars, visit, tour, bot, race,
                 conf, wrapper>>

DrawDelay(pattern, raw, half, q) ==
  /\ draw.n < MaxDraws
  /\ raw \in RawDelays(pattern)
  /\ pattern.distribution = "mixed" => half \in HalfSteps(patternsWeight(pattern.patterns))
  /\ pattern.distribution # "mixed" => half = 0
  /\ draw' = [NoDraw EXCEPT !.n = draw.n + 1, !.fn = "getRandomDelay",
                            !.pattern = pattern, !.raw = raw, !.half = half, !.q = q,
                            !.delay = getRandomDelayMs(pattern, raw, half, q)]
  /\ UNCHANGED <<now, limiterVars, historyVars, registryVars, lastCall, pipelineVars,
                 jarVars, visit, tour, bot, race,
                 conf, wrapper>>

(* ===================== cache files under a configuration ================= *)
\* config.scraper.cacheTTLHours: not set (the default stays), or a number of
\* hours
ConfiguredTTLs == {DefaultCacheTTLHours, TournamentTTLHours, TournamentTTLHours + 1}

CacheKinds == {"news", "tournament"}

\* no cache file was loaded in the step
NoLoad == [kind |-> None, age |-> 0, served |-> FALSE]

\* the scraper as constructed without a config file, its clock in hours, and
\* its news and tournament cache files
NoConf == [cacheTTLHours |-> DefaultCacheTTLHours, hour |-> 0,
           news |-> Absent, tournament |-> Absent, loaded |-> NoLoad]

\* the data a fetch leaves for the cache
NewsLists == {<<"a">>, <<"a", "b">>}

\* an hour passes
ConfHour ==
  /\ conf.hour < MaxAgeHours
  /\ conf' = [conf EXCEPT !.hour = @ + 1, !.loaded = NoLoad]
  /\ UNCHANGED <<now, limiterVars, historyVars, registryVars, lastCall, pipelineVars,
                 jarVars, visit, tour, bot, draw, race, wrapper>>

\* saveToCache(this.cacheNewsFile, articles)
ConfSaveNews(articles) ==
  /\ conf' = [conf EXCEPT !.news = saveToCache(@, articles, conf.hour, "none"),
                          !.loaded = NoLoad]
  /\ UNCHANGED <<now, limiterVars, historyVars, registryVars, lastCall, pipelineVars,
                 jarVars, visit, tour, bot, draw, race, wrapper>>

\* saveToCache(tournamentCachePath, {name, timestamp})
ConfSaveTournament(name) ==
  /\ conf' = [conf EXCEPT
                !.tournament = saveToCache(@, TournamentData(name, conf.hour),
                                           conf.hour, "none"),
                !.loaded = NoLoad]
  /\ UNCHANGED <<now, limiterVars, historyVars, registryVars, lastCall, pipelineVars,
                 jarVars, visit, tour, bot, draw, race, wrapper>>

\* getLatestNews looks for its cache: loadFromCache(this.cacheNewsFile)
ConfLoadNews ==
  /\ conf.news.state = "entry"
  /\ conf' = [conf EXCEPT
                !.loaded = [kind |-> "news", age |-> conf.hour - conf.news.timestamp,
                            served |-> ~loadFromCacheUnder(conf.cacheTTLHours, conf.news,
                                                           conf.hour).null]]
  /\ UNCHANGED <<now, limiterVars, historyVars, registryVars, lastCall, pipelineVars,
                 jarVars, visit, tour, bot, draw, race, wrapper>>

\* getCurrentTournament looks for its cache
ConfLoadTournament ==
  /\ conf.tournament.state = "entry"
  /\ conf' = [conf EXCEPT
                !.loaded = [kind |-> "tournament",
                            age |-> conf.hour - conf.tournament.timestamp,
                            served |-> cachedTournamentUsed(conf.cacheTTLHours,
                                                            TournamentTTLHours,
                                                            conf.tournament, conf.hour)]]
  /\ UNCHANGED <<now, limiterVars, historyVars, registryVars, lastCall, pipelineVars,
                 jarVars, visit, tour, bot, draw, race, wrapper>>

(* ============================ start.js wrapper =========================== *)
\* the exit codes of the bot process: it ended, or it crashed
ExitCodes == {0, 1}

\* the wrapper before its last line has run: restartCount is 0, no bot process
\* was spawned; running counts the bot processes that have not closed, timers
\* the restarts that setTimeout has pending, closed lists the codes of the
\* `close` events, and exited and exitCode tell of process.exit
NoWrapper ==
  [started |-> FALSE, restartCount |-> 0, running |-> 0, spawned |-> 0, timers |-> 0,
   closed |-> <<>>, exited |-> FALSE, exitCode |-> 0]

\* startBot(): spawns a bot process
startBot(w) == [w EXCEPT !.running = @ + 1, !.spawned = @ + 1]

\* a `close` handler that allows one restart more
onCloseOnceMore(w, code) ==
  LET closed == [w EXCEPT !.running = @ - 1, !.closed = Append(@, code)]
  IN IF w.restartCount <= MAX_RESTARTS
     THEN [closed EXCEPT !.restartCount = @ + 1, !.timers = @ + 1]
     ELSE [closed EXCEPT !.exited = TRUE, !.exitCode = 1]

\* botProcess.on('close'): below MAX_RESTARTS the handler counts a restart and
\* sets the timer that calls startBot, otherwise it ends the wrapper with
\* process.exit(1)
onClose(w, code) ==
  LET closed == [w EXCEPT !.running = @ - 1, !.closed = Append(@, code)]
  IN IF w.restartCount < MAX_RESTARTS
     THEN [closed EXCEPT !.restartCount = @ + 1, !.timers = @ + 1]
     ELSE [closed EXCEPT !.exited = TRUE, !.exitCode = 1]

\* the last line of start.js: the bot is started for the first time
WrapperMain ==
  /\ ~wrapper.started
  /\ wrapper' = [startBot(wrapper) EXCEPT !.started = TRUE]
  /\ UNCHANGED <<now, limiterVars, historyVars, registryVars, lastCall, pipelineVars,
                 jarVars, visit, tour, bot, draw, race, conf>>

\* a bot process closes with a code
BotClosed(code) ==
  /\ ~wrapper.exited
  /\ wrapper.running > 0
  /\ wrapper' = onClose(wrapper, code)
  /\ UNCHANGED <<now, limiterVars, historyVars, registryVars, lastCall, pipelineVars,
                 jarVars, visit, tour, bot, draw, race, conf>>

\* RESTART_DELAY after a close the timer calls startBot
RestartTimeout ==
  /\ ~wrapper.exited
  /\ wrapper.timers > 0
  /\ wrapper' = [startBot(wrapper) EXCEPT !.timers = @ - 1]
  /\ UNCHANGED <<now, limiterVars, historyVars, registryVars, lastCall, pipelineVars,
                 jarVars, visit, tour, bot, draw, race, conf>>

\* the constructor: counters at zero, the default session created; no cache
\* file yet (the tournament lookup and the cache configuration are set apart)
InitButTour ==
  /\ now = 0
  /\ requestsPerInterval = 0
  /\ lastResetTime = 0
  /\ rl = [c \in Callers |-> IdleCall]
  /\ admitted = <<>>
  /\ calls = 0
  /\ \E beh \in DrawnBehaviors :
       sessions = createNewSession(<<>>, 0, "default", beh, 0).reg
  /\ activeSessions = 1
  /\ lastCall = NoCall
  /\ cache = [d \in Datasets |-> Absent]
  /\ pl = IdlePl
  /\ out = NoFetch
  /\ prev = NoPrev
  /\ jar = EmptyJar
  /\ jarDomains = {}
  /\ upserted = <<>>
  /\ purged = NoPurge
  /\ visit = NoVisit
  /\ bot = NoBot
  /\ draw = NoDraw
  /\ race = NoRace
  /\ wrapper = NoWrapper

Init == InitButTour /\ tour = NoLookup /\ conf = NoConf

\* the tournament cache file that an earlier run of the bot can have left
TournamentFiles ==
  {Absent, Unreadable} \cup {Entry(0, TournamentData(n, 0)) : n \in TournamentNames}

InitTournament ==
  /\ InitButTour
  /\ \E file \in TournamentFiles : tour = [NoLookup EXCEPT !.file = file]
  /\ conf = NoConf

NextRate ==
  \/ \E c \in Callers, type \in RequestTypes : RLEnter(c, type)
  \/ \E c \in Callers : RLAfterWait(c)
  \/ \E c \in Callers : RLAdmit(c)
  \/ Tick

SpecRate == Init /\ [][NextRate]_vars

\* a CookieJar in use: cookies are set, looked up and purged as time passes
NextJar ==
  \/ \E c \in CookieObjects(now) : JarSetCookie(c)
  \/ \E headers \in HeaderLists, d \in Hosts : JarAddFromHeaders(headers, d)
  \/ JarCleanExpired
  \/ Tick
SpecJar == Init /\ [][NextJar]_vars

\* a caller that requests pages one after the other through makeRequest
NextVisit ==
  \/ \E id \in OwnIds, url \in VisitUrls : VisitEnter(id, url)
  \/ VisitAdmitted
  \/ \E outcome \in Outcomes, headers \in VisitHeaders, purge \in BOOLEAN :
       VisitSettled(outcome, headers, purge)
  \/ Tick
SpecVisit == Init /\ [][NextVisit]_vars

\* a caller that requests pages of one site under one session id or another
SiteUrls == {u \in VisitUrls : u.host = <<"example", "com">>}
SiteHeaders == {h \in VisitHeaders : \A n \in 1..Len(h) : h[n].attrs = <<>>}
NextShare ==
  \/ \E id \in VisitIds, url \in SiteUrls : VisitEnter(id, url)
  \/ VisitAdmitted
  \/ \E outcome \in Outcomes, headers \in SiteHeaders, purge \in BOOLEAN :
       VisitSettled(outcome, headers, purge)
  \/ Tick
SpecShare == Init /\ [][NextShare]_vars

\* the tournament lookups of the bot, one after the other
NextTournament ==
  \/ \E may2025 \in BOOLEAN : TourStart(may2025)
  \/ \E rnd \in RandomRotation, beh \in DrawnBehaviors, firefox \in BOOLEAN,
        fault \in WriteFaults : TourOpen(rnd, beh, firefox, fault)
  \/ \E rnd \in RandomRotation, beh \in DrawnBehaviors, outcome \in Outcomes,
        listed \in BOOLEAN, name \in TournamentNames, fault \in WriteFaults :
        TourSettled(rnd, beh, outcome, listed, name, fault)
  \/ Tick
SpecTournament == InitTournament /\ [][NextTournament]_vars

\* the news updates of the bot, with whatever the fetches return
NextBot ==
  \/ \E articles \in FetchedLists, fault \in WriteFaults, sends \in 0..MaxFetched :
       sendNewsUpdates(articles, fault, sends)
  \/ BotReady
SpecBot == Init /\ [][NextBot]_vars

\* makeRequest calls that overlap under one session id
NextRace ==
  \/ \E c \in RaceCallers, id \in RaceIds, force \in BOOLEAN : RaceEnter(c, id, force)
  \/ \E c \in RaceCallers : RaceAdmitted(c)
  \/ \E c \in RaceCallers, outcome \in Outcomes : RaceSettled(c, outcome)
  \/ \E c \in RaceCallers : RLAfterWait(c)
  \/ Tick
SpecRace == Init /\ [][NextRace]_vars

\* the scraper under a configuration of its cache TTL
InitTtl ==
  /\ InitButTour
  /\ tour = NoLookup
  /\ \E ttl \in ConfiguredTTLs : conf = [NoConf EXCEPT !.cacheTTLHours = ttl]

\* cache files are written and looked up as the hours pass
NextTtl ==
  \/ ConfHour
  \/ \E articles \in NewsLists : ConfSaveNews(articles)
  \/ \E name \in TournamentNames \ {NoName} : ConfSaveTournament(name)
  \/ ConfLoadNews
  \/ ConfLoadTournament
SpecTtl == InitTtl /\ [][NextTtl]_vars

\* the wrapper and the bot processes it starts
NextWrapper ==
  \/ WrapperMain
  \/ \E code \in ExitCodes : BotClosed(code)
  \/ RestartTimeout
SpecWrapper == Init /\ [][NextWrapper]_vars

\* the random selections, for every catalog, pattern and draw
MixedWeight == patternsWeight(timingPatterns("subsequentRequests").patterns)
RawDraws == UNION {RawDelays(pattern) : pattern \in DelayPatterns}
NextDraw ==
  \/ /\ draw.n < MaxDraws
     /\ \E browserProfiles \in Catalogs, half \in HalfSteps(MaxProfiles * MaxWeight) :
          DrawBrowserProfile(browserProfiles, half)
  \/ /\ draw.n < MaxDraws
     /\ \E profiles \in Catalogs, type \in {"browser", "crawler"},
           contentType \in ContentTypes, half \in HalfSteps(MaxProfiles * MaxWeight),
           q \in 0..Grid :
          DrawProfile(profiles, type, contentType, half, q)
  \/ /\ draw.n < MaxDraws
     /\ \E pattern \in DelayPatterns, raw \in RawDraws, half \in HalfSteps(MixedWeight),
           q \in 0..Grid :
          DrawDelay(pattern, raw, half, q)
SpecDraw == Init /\ [][NextDraw]_vars

Next ==
  \/ \E id \in ApiIds : ApiGetSession(id)
  \/ getLatestNews
  \/ \E limit \in 1..MaxLimit : getUpcomingMatches(limit)
  \/ \E limit \in 1..MaxLimit : getTopTeams(limit)
  \/ Resolved
  \/ RLAfterWait(1)
  \/ makeRequestAdmitted
  \/ makeRequestSend
  \/ \E outcome \in Outcomes, page \in NewsPages, items \in 0..MaxItems,
        matches \in 0..MaxMatches, fault \in WriteFaults :
          makeRequestSettled(outcome, page, items, matches, fault)
  \/ \E fault \in WriteFaults : NextStrategy(fault)
  \/ \E outcome \in Outcomes, page \in RankingPages, fault \in WriteFaults :
          getTopTeamsSettled(outcome, page, fault)
  \/ Tick

Spec == Init /\ [][Next]_vars

(* ================================ claims ================================ *)

\* C1: in every window of RequestIntervalTicks consecutive ticks, whatever its
\* start, at most MaxRequestsPerInterval calls are admitted (stated for the
\* window that ends at the current time, at every time).
C1_SlidingWindowCap ==
  Len(Recent(admitted, now)) <= MaxRequestsPerInterval

\* C2: admission is atomic.  No caller runs its limit check while another one is
\* between its own check and its increment of the counter; and when more callers
\* than the cap are started together in one interval, they are never all past the
\* limit check without one of them having been made to wait.
C2_AdmissionAtomic ==
  /\ Cardinality({c \in Callers : rl[c].pc \in {"rlWait", "rlDelay"}}) <= 1
  /\ ~(\A c \in Callers :
         /\ rl[c].pc = "rlDelay"
         /\ ~rl[c].waited
         /\ rl[c].enteredAt >= lastResetTime
         /\ now - lastResetTime <= RequestIntervalTicks)


\* a news fetch has resolved (or rejected) and its caller has not yet run
NewsReturned == pl.pc = "return" /\ out.op = "news"

\* C3: fallback order of the news fetch.  Whatever the session registry and the
\* rate limiter hold, when the cache is empty or stale, the direct scrape fails
\* and the feed is working (it answers with at least one item), the fetch
\* returns the feed's records and the news cache then holds exactly them (the
\* cache write itself working).
C3_FallbackToFeed ==
  (NewsReturned /\ ~out.hit /\ "direct" \in out.failed /\ pl.feedWorks /\ ~out.ioError)
    => /\ ~out.rejected
       /\ \E n \in 1..MaxItems : out.result = ParseFeed(n)
       /\ cache["news"].state = "entry"
       /\ cache["news"].data = out.result

\* C4: exhaustion is not an exception.  Whatever fails (a 403, a timeout or
\* transport error, a page without records, a cache read or write error, an
\* error of the session registry), the news, matches and rankings fetches never
\* reject: each resolves to at least one record, and every record it resolves
\* to carries the fields of its kind.
C4_NeverRejects ==
  pl.pc = "return" =>
    /\ ~out.rejected
    /\ Len(out.result) >= 1
    /\ \A i \in 1..Len(out.result) :
         LET r == out.result[i] IN
         CASE out.op = "news" ->
                /\ {"url", "time", "type"} \subseteq DOMAIN r
                /\ r.type \in {"standard", "featured"}
           [] out.op = "matches" ->
                {"team1", "team2", "matchTime"} \subseteq DOMAIN r
           [] OTHER ->
                {"rank", "name", "points"} \subseteq DOMAIN r

\* C4, its case: a news fetch whose three network strategies failed and whose
\* cache write failed as well has resolved
C4_Witness ==
  /\ NewsReturned
  /\ {"direct", "feed", "sitemap"} \subseteq out.failed
  /\ out.ioError
  /\ ~out.rejected

\* C5: when every news strategy fails, the fetch returns the fixed 2-entry
\* placeholder set and writes nothing to the cache.  (The third-party strategy
\* contacts no source, so a fetch whose direct scrape, feed and sitemap failed
\* has got records from none of the four.)
C5_AllFailPlaceholder ==
  (NewsReturned /\ {"direct", "feed", "sitemap"} \subseteq out.failed)
    => /\ out.result = StaticNews(out.doneAt)
       /\ cache["news"] = out.cacheBefore

\* C6: cache hit.  When getLatestNews is called with a news cache entry whose
\* age is within the TTL, it resolves at once to exactly the cached records, each
\* with fromCache set, having made no request; and from the call until its
\* caller has the result, the rate limiter, the sessions and the cache files do
\* not change.
C6_CacheHit ==
  [][ /\ ( /\ pl.pc = "idle"
           /\ pl'.op = "news"
           /\ cache["news"].state = "entry"
           /\ now - cache["news"].timestamp <= CacheTTLTicks )
         => /\ pl'.pc = "return"
            /\ ~out'.rejected
            /\ out'.calls = 0
            /\ Len(out'.result) = Len(cache["news"].data)
            /\ \A i \in 1..Len(out'.result) :
                 out'.result[i] = [cache["news"].data[i] EXCEPT !.fromCache = TRUE]
            /\ UNCHANGED <<limiterVars, registryVars, cache>>
      /\ (NewsReturned /\ out.hit) => UNCHANGED <<limiterVars, registryVars, cache>>
    ]_vars

\* C6, its case: a news fetch has resolved from the cache while a second
\* session is registered
C6_Witness ==
  /\ NewsReturned
  /\ out.hit
  /\ Len(out.result) >= 1
  /\ Len(sessions) >= 2

\* C7: the news fetch is idempotent.  Of two consecutive getLatestNews calls
\* that resolve within the cache TTL of each other (the cache writes working),
\* the second returns the same records with the same fields as the first and
\* makes no request.
C7_Idempotent ==
  (NewsReturned /\ prev.op = "news" /\ ~prev.ioError /\ ~out.ioError
     /\ out.doneAt - prev.doneAt <= CacheTTLTicks)
    => /\ out.result = prev.result
       /\ out.calls = 0

\* what C8 expects of a news fetch that found no cache file and whose direct
\* scrape met standard and featured articles: the standard ones, then the
\* featured ones, no other strategy tried, and the cache file holding those
\* records under the time of the write
DirectSuccess ==
  /\ NewsReturned
  /\ out.cacheBefore = Absent
  /\ ~out.hit
  /\ "direct" \notin out.failed
  /\ out.page.standard >= 1
  /\ out.page.featured >= 1

DirectSuccessResult ==
  /\ ~out.rejected
  /\ Len(out.result) = out.page.standard + out.page.featured
  /\ \A i \in 1..Len(out.result) :
       IF i <= out.page.standard
       THEN out.result[i].type = "standard" /\ out.result[i].url = "news/" \o ToString(i)
       ELSE /\ out.result[i].type = "featured"
            /\ out.result[i].url = "featured/" \o ToString(i - out.page.standard)
  /\ out.tried = <<"direct">>
  /\ cache["news"] = Entry(out.doneAt, out.result)

C9_Rotation ==
  (lastCall.made /\ lastCall.due)
    => /\ ~lastCall.threw
       /\ lastCall.replaced
       /\ lastCall.fresh

\* C10: bounded session pool.  Whenever a createNewSession / getSession call
\* has returned, the registry holds at most MaxSessions sessions.
C10_BoundedPool ==
  (lastCall.made /\ ~lastCall.threw) => lastCall.size <= MaxSessions

\* C11: detection handling in makeRequest.  When a request is answered with a
\* 403 and its caller named a session id, the session registered under that id
\* is removed, so that the next getSession for that id constructs a session,
\* and the failure reaches the caller; when no session id was named, the
\* sessions stay as they are and the failure reaches the caller as well.
C11_DetectionHandling ==
  [][ (pl.pc = "send" /\ pl.op \in {"news", "matches"} /\ lastCall'.status = "forbidden")
        => LET o == Options(pl.stage) IN
           /\ pl'.pc = "fallback"
           /\ pl.stage \in out'.failed
           /\ IF o.given
              THEN /\ ~Has(sessions', o.sessionId)
                   /\ \A s \in Range(sessions') : s \in Range(Release(sessions))
                   /\ \A beh \in DrawnBehaviors :
                        getSession(sessions', activeSessions', o.sessionId, FALSE,
                                   FALSE, beh, now).created
              ELSE /\ sessions' = Release(sessions)
                   /\ activeSessions' = activeSessions
    ]_vars

\* C11, its case: the feed request of a news fetch, which names feed_session,
\* has just been answered with a 403
C11_Witness ==
  /\ lastCall.status = "forbidden"
  /\ pl.op = "news"
  /\ pl.stage = "feed"
  /\ pl.pc = "fallback"

\* the cookies of the jar stored under the key of cookie c
EntriesOf(cookies, c) ==
  {i \in 1..Len(cookies[c.domain]) : SameCookie(cookies[c.domain][i], c)}

\* C12: after setCookie or addFromHeaders the jar holds, for every domain, name
\* and path, at most one cookie; for every key that was set it holds exactly
\* one, the cookie most recently set under that key; and every cookie of a key
\* that was not set is still there as it was.
C12_UpsertUnique ==
  [][ upserted' # <<>> =>
        /\ \A k \in DOMAIN jar' : \A i, j \in 1..Len(jar'[k]) :
              (i # j) => ~SameCookie(jar'[k][i], jar'[k][j])
        /\ \A k \in DOMAIN jar' : \A i \in 1..Len(jar'[k]) : jar'[k][i].domain = k
        /\ \A n \in 1..Len(upserted') :
              LET c == upserted'[n]
                  last == CHOOSE m \in 1..Len(upserted') :
                            /\ SameCookie(upserted'[m], c)
                            /\ \A q \in 1..Len(upserted') :
                                  SameCookie(upserted'[q], c) => q <= m
              IN /\ Cardinality(EntriesOf(jar', c)) = 1
                 /\ \A i \in EntriesOf(jar', c) : jar'[c.domain][i] = upserted'[last]
        /\ \A k \in DOMAIN jar : \A i \in 1..Len(jar[k]) :
              (\A n \in 1..Len(upserted') : ~SameCookie(upserted'[n], jar[k][i]))
                => /\ i <= Len(jar'[k])
                   /\ jar'[k][i] = jar[k][i]
    ]_vars

\* a response set the same cookie twice with two values, and the jar kept one
\* cookie, the second
C12_Witness ==
  /\ Len(upserted) = 2
  /\ SameCookie(upserted[1], upserted[2])
  /\ upserted[1].value # upserted[2].value
  /\ jar[upserted[2].domain] = <<upserted[2]>>

\* a cookie whose expiry is a date strictly before t
ExpiredAt(c, t) == c.expires.kind = "date" /\ c.expires.at < t

\* a cookie without expiry, or whose expiry is a date not before t
Unexpired(c, t) ==
  \/ c.expires.kind = "none"
  \/ c.expires.kind = "date" /\ c.expires.at >= t

\* C13: at any time, purged or not, the cookie string of any url is made of the
\* names and values of matching cookies none of which has an expiry strictly
\* before now; and a cleanExpiredCookies step leaves no cookie with an expiry
\* strictly before now in the jar while it keeps, in place, every cookie
\* without expiry or with an expiry not before now.
C13_ExpiredCookies ==
  /\ [](\A u \in Urls :
          LET m == getMatchingCookies(jar, u.host, u.path, u.https, now)
              str == getCookieString(jar, u, now)
          IN /\ Len(str) = Len(m)
             /\ \A i \in 1..Len(m) :
                  /\ ~ExpiredAt(m[i], now)
                  /\ str[i] = [name |-> m[i].name, value |-> m[i].value]
                  /\ m[i] \in Range(jar[m[i].domain]))
  /\ [][ purged'.ran =>
            \A k \in DOMAIN jar :
              /\ \A i \in 1..Len(jar'[k]) : ~ExpiredAt(jar'[k][i], now)
              /\ SelectSeq(jar'[k], LAMBDA c : Unexpired(c, now))
                   = SelectSeq(jar[k], LAMBDA c : Unexpired(c, now))
              /\ Range(jar'[k]) \subseteq Range(jar[k])
        ]_vars

\* a purge removed one cookie and kept one that expires later, which a url
\* still receives
C13_Witness ==
  /\ purged.ran
  /\ purged.removed = 1
  /\ \E k \in DOMAIN jar :
       /\ Len(jar[k]) = 1
       /\ jar[k][1].expires.kind = "date"
       /\ \E u \in Urls : getCookieString(jar, u, now)
                             = <<[name |-> jar[k][1].name, value |-> jar[k][1].value]>>

\* the domain keys and hosts of the example
DotExampleCom == DomainKey(TRUE, <<"example", "com">>)
ExampleHosts == {<<"sub", "example", "com">>, <<"example", "com">>}

\* labels is the host or a parent domain of it, cut at a dot
SuffixOf(labels, host) ==
  /\ Len(labels) <= Len(host)
  /\ SubSeq(host, Len(host) - Len(labels) + 1, Len(host)) = labels

\* the cookies a url receives, and whether its cookie string names the cookie
Sent(u) == getMatchingCookies(jar, u.host, u.path, u.https, now)
Named(u, c) ==
  \E i \in 1..Len(Sent(u)) :
    /\ Sent(u)[i] = c
    /\ getCookieString(jar, u, now)[i] = [name |-> c.name, value |-> c.value]

\* no cookie is sent to a url whose stored domain is neither the host nor a
\* parent domain of the host, so none of other.com goes to example.com
NoForeignCookie ==
  \A u \in Urls : \A c \in Range(Sent(u)) :
    /\ SuffixOf(c.domain.labels, u.host)
    /\ u.host = <<"example", "com">> => c.domain.labels # <<"other", "com">>

\* C14 as stated: every cookie stored under .example.com that is not expired
\* and whose path is a prefix of the request path is sent to sub.example.com
\* and to example.com, and no cookie of a domain that is not the host or a
\* parent of it is sent.
C14_DomainMatching_Stated ==
  /\ \A u \in Urls : \A c \in Range(jar[DotExampleCom]) :
       (u.host \in ExampleHosts /\ ~ExpiredAt(c, now) /\ startsWith(u.path, c.path))
         => Named(u, c)
  /\ NoForeignCookie

\* C14, amended: the same for the cookies that are not Secure or are asked for
\* over https.
C14_DomainMatching ==
  /\ \A u \in Urls : \A c \in Range(jar[DotExampleCom]) :
       (u.host \in ExampleHosts /\ ~ExpiredAt(c, now) /\ startsWith(u.path, c.path)
          /\ (c.secure => u.https))
         => Named(u, c)
  /\ NoForeignCookie

\* the jar holds a cookie under .example.com that both hosts receive over http
\* and a cookie under other.com
C14_Witness ==
  /\ jar[DomainKey(FALSE, <<"other", "com">>)] # <<>>
  /\ \E c \in Range(jar[DotExampleCom]) :
       \A h \in ExampleHosts : Named([host |-> h, path |-> <<"/">>, https |-> FALSE], c)

\* the request whose headers are built follows a request under the same
\* session id to the same host, whose response set the cookies before.set
SecondRequest ==
  /\ visit.pc = "sent"
  /\ visit.before.made
  /\ visit.before.ok
  /\ visit.before.id = visit.id
  /\ visit.before.url.host = visit.url.host

\* the Cookie header of the request names the cookie
InCookieHeader(c) ==
  [name |-> c.name, value |-> c.value] \in Range(visit.cookieHeader)

\* the cookie is the one the first response left under its key, the second
\* request is for it (unexpired when the headers are built, its path a prefix
\* of the request path, not Secure unless over https), and the lookup tries
\* its domain: the host or a parent of it, of two labels or more
StillDue(c) ==
  /\ \A n \in 1..Len(visit.before.set) :
       SameCookie(visit.before.set[n], c) => 
         \E m \in n..Len(visit.before.set) : visit.before.set[m] = c
  /\ Unexpired(c, visit.at)
  /\ startsWith(visit.url.path, c.path)
  /\ c.secure => visit.url.https
  /\ SuffixOf(c.domain.labels, visit.url.host)
  /\ Len(c.domain.labels) >= 2

\* C15: of two consecutive makeRequest calls under the same session id to the
\* same host, the second sends in its Cookie header every cookie that the
\* response to the first set.
C15_CookiePersistence ==
  SecondRequest => \A c \in Range(visit.before.set) : InCookieHeader(c)

\* what the code does keep: the second request sends every cookie that the
\* response to the first set, provided that getSession returned the session of
\* the first request and not a new one, and that the cookie is still due
PersistsWhileDue ==
  (SecondRequest /\ visit.kept)
    => \A c \in Range(visit.before.set) : StillDue(c) => InCookieHeader(c)

\* C15, the case that fails: the session of the first request is kept, the
\* second request is for the url of the first, a host name of one label, and
\* a cookie of the first response that has no expiry and is not Secure is
\* missing from the Cookie header
C15_Witness ==
  /\ SecondRequest
  /\ visit.kept
  /\ visit.url = visit.before.url
  /\ Len(visit.url.host) = 1
  /\ \E c \in Range(visit.before.set) :
       /\ visit.before.set = <<c>>
       /\ c.expires.kind = "none"
       /\ ~c.secure
       /\ ~InCookieHeader(c)

\* C16: getCurrentTournament never rejects, and whenever it has returned, from
\* the cache or after its methods, with every request failed or not and with
\* the cache file absent, stale or unreadable, its result is a name that is
\* not empty; a name it saves is not empty either.
C16_TournamentName ==
  /\ ~tour.rejected
  /\ tour.returned => tour.result # NoName
  /\ (tour.returned /\ tour.file.state = "entry" /\ tour.file.timestamp > 0)
       => tour.file.data.name # NoName

\* a lookup that found the cache unreadable has returned after the last
\* method, with a session registry that is over its cap
C16_Witness ==
  /\ tour.returned
  /\ ~tour.fromCache
  /\ tour.result = EstimateByDate(tour.may2025)
  /\ tour.file.state = "unreadable"
  /\ activeSessions > MaxSessions

\* the strategies of getLatestNews, in their order, and those that call
\* makeRequest
NewsStrategies == <<"direct", "feed", "sitemap", "thirdParty">>
Requesting == {"direct", "feed", "sitemap"}

\* C17: in a getLatestNews run the strategies started are the first ones of
\* direct, feed, sitemap, third party, each once; every one but the last has
\* failed or yielded no records; the network requests made are at most one per
\* makeRequest call, that is per started strategy that requests; a request is
\* in flight only for the strategy started last; and a strategy is started
\* only when the one before has failed and nothing is in flight.
C17_SequentialNoRetry ==
  /\ [](out.op = "news" =>
          /\ Len(out.tried) <= Len(NewsStrategies)
          /\ out.tried = SubSeq(NewsStrategies, 1, Len(out.tried))
          /\ \A i \in 1..(Len(out.tried) - 1) : out.tried[i] \in out.failed
          /\ out.calls <= Cardinality(Range(out.tried) \cap Requesting)
          /\ (pl.pc = "send" /\ pl.op = "news")
               => /\ pl.stage = out.tried[Len(out.tried)]
                  /\ pl.stage \notin out.failed
                  /\ out.calls >= 1)
  /\ [][ (out.op = "news" /\ out'.op = "news" /\ out.tried # <<>>
           /\ out'.tried # out.tried)
          => /\ pl.pc = "fallback"
             /\ out.tried[Len(out.tried)] \in out.failed
             /\ Len(out'.tried) = Len(out.tried) + 1
             /\ out'.calls = out.calls
      ]_vars

\* a news fetch has gone through all four strategies with three requests
C17_Witness ==
  /\ NewsReturned
  /\ out.tried = NewsStrategies
  /\ out.calls = 3

\* C18: however many articles a fetch returns, no article url is sent to the
\* channel more than once.
C18_NoDuplicatePosts ==
  \A u \in ArticleUrls : bot.channel[u] <= 1

\* without any restart, and with the file written, the channel has got an
\* article twice
C18_Witness ==
  /\ bot.restarts = 0
  /\ bot.file = PostedFile(bot.lastPostedArticles)
  /\ \E u \in ArticleUrls : bot.channel[u] = 2

\* the cumulative weight of the first i profiles, an unset weight counting 1
RECURSIVE Cumulative(_, _)
Cumulative(profiles, i) ==
  IF i = 0 THEN 0
  ELSE Cumulative(profiles, i - 1)
         + (IF profiles[i].weight = Unset THEN 1 ELSE profiles[i].weight)

\* the first profile whose cumulative weight is at least half/2
FirstReaching(profiles, half) ==
  profiles[CHOOSE i \in 1..Len(profiles) :
             /\ 2 * Cumulative(profiles, i) >= half
             /\ \A j \in 1..(i - 1) : 2 * Cumulative(profiles, j) < half]

\* the unit cells of the draw range (their midpoints) at which the walk
\* returns the i-th profile
CellsOf(profiles, i) ==
  {half \in HalfSteps(Cumulative(profiles, Len(profiles))) :
     half % 2 = 1 /\ getRandomBrowserProfile(profiles, half).name = i}

Weighted ==
  \/ draw.fn = "getRandomBrowserProfile"
  \/ draw.fn = "getRandomProfile" /\ ~(draw.type = "crawler" /\ draw.contentType # None)

\* C19: a weighted selection returns the first profile whose cumulative weight
\* reaches the draw, every profile gets as many unit cells of the draw range as
\* its weight (1 when unset), and every selection returns a member of its
\* catalog.
C19_WeightedSelection ==
  /\ Weighted =>
       /\ draw.profile = FirstReaching(draw.profiles, draw.half)
       /\ \A i \in 1..Len(draw.profiles) :
            Cardinality(CellsOf(draw.profiles, i))
              = Cumulative(draw.profiles, i) - Cumulative(draw.profiles, i - 1)
  /\ draw.fn \in {"getRandomBrowserProfile", "getRandomProfile"}
       => draw.profile \in Range(draw.profiles)

\* a draw in the share of the third profile of a catalog with an unset weight
\* and a weight of 2
C19_Witness ==
  /\ draw.fn = "getRandomProfile"
  /\ draw.type = "browser"
  /\ Len(draw.profiles) = 3
  /\ draw.profiles[1].weight = Unset
  /\ draw.profiles[2].weight = 2
  /\ draw.half = 7
  /\ draw.profile = draw.profiles[3]

\* C20: for every pattern and every draw, getRandomDelay returns a number
\* between the pattern's minDelay and maxDelay.
C20_DelayClamped ==
  draw.fn = "getRandomDelay"
    => /\ draw.delay.inf = 0
       /\ draw.pattern.minDelay <= draw.delay.v
       /\ draw.delay.v <= draw.pattern.maxDelay

\* a draw above maxDelay, or an infinite one, has been cut to maxDelay
C20_Witness ==
  /\ draw.fn = "getRandomDelay"
  /\ Less(Num(draw.pattern.maxDelay), draw.raw)
  /\ draw.pattern.distribution \in {"normal", "exponential"}
  /\ draw.delay = Num(draw.pattern.maxDelay)

\* C21: the active-session counter equals the number of registered sessions,
\* whatever getSession, createNewSession, the evictions and the 403 discards
\* have done.
C21_CounterMatchesRegistry ==
  activeSessions = Len(sessions)

\* a getSession call has replaced a registered session and returned, and the
\* counter is above the number of registered sessions
C21_Witness ==
  /\ lastCall.made
  /\ lastCall.replaced
  /\ ~lastCall.threw
  /\ activeSessions > Len(sessions)

\* C22: eviction completes.  No createNewSession / getSession call raises an
\* error, whatever the registry holds when cleanupOldSessions runs.
C22_EvictionCompletes ==
  lastCall.made => ~lastCall.threw

\* a call has thrown after its capacity pass evicted a session: the registry
\* is back at the cap
C22_Witness ==
  /\ lastCall.made
  /\ lastCall.threw
  /\ lastCall.size <= MaxSessions

\* the registered sessions, other than the default one, that are older than
\* the TTL
Overdue ==
  {i \in 1..Len(sessions) :
     sessions[i].id # "default" /\ now - sessions[i].sessionStart > SessionTtlTicks}

\* C23: bounded session lifetime.  Whenever a createNewSession / getSession
\* call has returned, no session other than the default one is older than the
\* TTL, whether or not the registry is over its cap.
C23_BoundedLifetime ==
  (lastCall.made /\ ~lastCall.threw) => Overdue = {}

\* a call has returned within the cap and left an overdue session registered
C23_Witness ==
  /\ lastCall.made
  /\ ~lastCall.threw
  /\ activeSessions <= MaxSessions
  /\ Overdue # {}

\* C24: every network request of a content fetch goes through makeRequest: the
\* limiter has admitted (and counted) a call of the fetch for it, and while it
\* is in flight it is made with a session of the registry.
C24_ThroughOrchestrator ==
  /\ out.calls <= out.admissions
  /\ pl.pc = "send" => \E i \in 1..Len(sessions) : sessions[i].held

\* the rankings fetch has a request in flight that no admission preceded and
\* that uses no session
C24_Witness ==
  /\ pl.pc = "send"
  /\ pl.op = "teams"
  /\ out.calls = 1
  /\ out.admissions = 0
  /\ \A i \in 1..Len(sessions) : ~sessions[i].held

\* C25: the interval counter never exceeds the cap, whatever the interleaving
\* of the enforceRateLimit calls and whatever their times.
C25_CounterWithinCap ==
  requestsPerInterval <= MaxRequestsPerInterval

\* the counter is above the cap with no call in progress, the interval length
\* after the interval began
C25_Witness ==
  /\ requestsPerInterval > MaxRequestsPerInterval
  /\ now - lastResetTime = RequestIntervalTicks
  /\ \A c \in Callers : rl[c].pc = "idle"

\* C26: only results of a real acquisition are persisted.  The tournament
\* cache never holds the generic name that getCurrentTournament falls back to
\* when no method gave a name (the cache files of earlier runs hold none).
C26_NoPlaceholderCached ==
  tour.file.state = "entry" => tour.file.data.name # OrGeneric(NoName)

\* a lookup that went to the network has returned the generic name and the
\* cache file holds it, written at this time
C26_Witness ==
  /\ tour.returned
  /\ ~tour.fromCache
  /\ tour.result = OrGeneric(NoName)
  /\ tour.file = Entry(now, TournamentData(OrGeneric(NoName), now))

\* a fetch has missed the cache and returned the records that a request of
\* its last strategy obtained, the cache write raising no I/O error
ReturnedFetched ==
  /\ pl.pc = "return"
  /\ ~out.hit
  /\ ~out.rejected
  /\ ~out.ioError
  /\ out.tried # <<>>
  /\ out.tried[Len(out.tried)] \notin out.failed
  /\ out.tried[Len(out.tried)] # "thirdParty"

\* C27: after a fetch that returned records of a real source, the cache of
\* its dataset is fresh (the next fetch of the dataset is answered from it),
\* also when the records equal those of the stale cache file.
C27_FreshAfterFetch ==
  ReturnedFetched => ~loadFromCache(cache[Dataset(out.op)], now).null

\* a fetch has returned the records that the expired cache file already held,
\* and the file is as it was
C27_Witness ==
  /\ ReturnedFetched
  /\ out.cacheBefore.state = "entry"
  /\ now - out.cacheBefore.timestamp > CacheTTLTicks
  /\ out.cacheBefore.data = out.result
  /\ cache[Dataset(out.op)] = out.cacheBefore

\* the news fetch before this one found nothing by the direct scrape, the feed
\* and the sitemap: it returned what getNewsFromThirdParty made up
AllFailedBefore ==
  /\ prev.op = "news"
  /\ prev.result = getNewsFromThirdParty(prev.doneAt)

\* C28: a news fetch in which the direct scrape, the feed and the sitemap all
\* failed does not keep the next getLatestNews call from the network: that
\* call is not answered from the cache.
C28_FailureNotCached ==
  (NewsReturned /\ AllFailedBefore) => ~out.hit

\* the call after such a fetch has been answered from the cache, without a
\* request, with the records of the failed fetch
C28_Witness ==
  /\ NewsReturned
  /\ AllFailedBefore
  /\ out.hit
  /\ out.calls = 0
  /\ out.result = TagFromCache(prev.result)

\* C29: the active-session counter is never negative, however the makeRequest
\* calls that share a session id interleave and end.
C29_CounterNotNegative ==
  activeSessions >= 0

\* overlapping calls have ended in a 403 of the same session, each taking one
\* from the counter, and the counter is below zero, with the default session
\* still registered
C29_Witness ==
  /\ race.settled.done
  /\ ~race.settled.ok
  /\ activeSessions < 0
  /\ Has(sessions, "default")

\* C30: no visit is lost.  When a request under session id X has succeeded,
\* the object that recorded its visit is the session registered under X at
\* that moment.
C30_VisitRecordedInRegistered ==
  (race.settled.done /\ race.settled.ok)
    => race.settled.obj = race.settled.registered

\* a request has succeeded after the session under its id was replaced: the
\* registered session has no visit
C30_Witness ==
  /\ race.settled.done
  /\ race.settled.ok
  /\ race.settled.registered # 0
  /\ race.settled.obj # race.settled.registered
  /\ Has(sessions, race.settled.id)
  /\ Lookup(sessions, race.settled.id).visitCount = 0

(* C31: with rotation enabled, the visit count of a registered session never
   exceeds the max page views of its session behaviour, for any interleaving
   of overlapping makeRequest calls under one session id *)
C31_VisitsWithinPageViews ==
  UseSessionRotation =>
    \A i \in 1..Len(sessions) :
       sessions[i].visitCount <= sessions[i].behavior.pageViewsMax

\* a response was recorded in the session registered under its id, which
\* another call had got from getSession too, and the session now has more
\* visits than its page views
C31_Witness ==
  /\ race.settled.done /\ race.settled.ok
  /\ race.settled.obj = race.settled.registered
  /\ Has(sessions, race.settled.id)
  /\ LET s == Lookup(sessions, race.settled.id)
     IN s.visitCount > s.behavior.pageViewsMax

\* the cookie is one the claim counts for the url: stored under the host name,
\* bare or with a leading dot, its path a prefix of the request path, not
\* expired, and not Secure unless the url is https
DueFor(u, c) ==
  /\ c.domain.labels = u.host
  /\ startsWith(u.path, c.path)
  /\ ~ExpiredAt(c, now)
  /\ (c.secure => u.https)

(* C32: cookie lookup by host.  For every request host name, a single-label
   one such as localhost included, the cookie string includes every stored
   cookie whose domain equals the host name (bare or with a leading dot),
   whose path is a prefix of the request path, that is unexpired and whose
   secure flag is compatible with the connection. *)
C32_LookupByHost ==
  \A u \in Urls : \A k \in DOMAIN jar : \A c \in Range(jar[k]) :
     DueFor(u, c) => Named(u, c)

\* a response of localhost set a cookie, which is stored under localhost, and
\* the cookie string of http://localhost/ is empty
C32_Witness ==
  /\ <<"localhost">> \in jarDomains
  /\ \E c \in Range(jar[DomainKey(FALSE, <<"localhost">>)]) :
       LET u == [host |-> <<"localhost">>, path |-> <<"/">>, https |-> FALSE]
       IN DueFor(u, c) /\ getCookieString(jar, u, now) = <<>>

\* the directive carries a Max-Age and an Expires attribute; its Max-Age
Carries(h, attr) == \E i \in 1..Len(h.attrs) : h.attrs[i].attr = attr
MaxAgeOf(h) ==
  h.attrs[CHOOSE i \in 1..Len(h.attrs) : h.attrs[i].attr = "max-age"].seconds
BothExpiries == {h \in Directives : Carries(h, "max-age") /\ Carries(h, "expires")}

(* C33: Max-Age overrides Expires.  For every set-cookie directive that
   carries both a Max-Age and an Expires attribute, in either order, the
   expiry of the cookie parsed from it at time now is the one computed from
   Max-Age: now + max-age seconds. *)
C33_MaxAgeOverrides ==
  \A h \in BothExpiries : \A d \in Hosts :
     parseCookie(h, d, now).expires = DateAt(now + MaxAgeOf(h))

\* a response has just set a cookie with `Max-Age=..; Expires=..`, in that
\* order, and the jar holds it with the date of Expires, which is not the
\* receipt time plus Max-Age
C33_Witness ==
  \E h \in BothExpiries : \E d \in Hosts :
     /\ h.attrs[1].attr = "max-age"
     /\ upserted = <<parseCookie(h, d, now)>>
     /\ jar[DomainKey(FALSE, d)] = upserted
     /\ upserted[1].expires = h.attrs[2].date
     /\ upserted[1].expires # DateAt(now + MaxAgeOf(h))

(* C34: getSession is a pure lookup when nothing triggers replacement.  If a
   session is registered under the id, forceCreate is false, and rotation is
   disabled or shouldRotateSession is false, getSession returns that session
   and leaves the registry, the active-session counter and the state of the
   session as they were. *)
C34_PureLookup ==
  \A id \in SessionIds, rotation \in BOOLEAN, rnd \in BOOLEAN, beh \in DrawnBehaviors :
     (/\ Has(sessions, id)
      /\ (~rotation \/ ~shouldRotateSession(Lookup(sessions, id), now, rnd)))
       => LET g == getSessionUnder(rotation, sessions, activeSessions, id, FALSE,
                                    rnd, beh, now)
          IN /\ g.ret /\ ~g.created /\ ~g.threw
             /\ g.reg = sessions
             /\ g.active = activeSessions

\* a getSession call has just returned the session that was registered, a
\* session with visits and cookies that rotation is not due for
C34_Witness ==
  /\ lastCall.made /\ ~lastCall.replaced /\ ~lastCall.threw /\ ~lastCall.due
  /\ ~lastCall.fresh
  /\ lastCall.size = Len(sessions)
  /\ \E i \in 1..Len(sessions) :
       /\ sessions[i].visitCount > 0
       /\ sessions[i].cookies # {}
       /\ ~shouldRotateSession(sessions[i], now, FALSE)

\* the ages, in hours, at which a cache file is still served under a TTL
NewsServedAges(ttl) ==
  {a \in 0..MaxAgeHours : ~loadFromCacheUnder(ttl, Entry(0, <<"a">>), a).null}
TournamentServedAges(ttl) ==
  {a \in 0..MaxAgeHours :
     cachedTournamentUsed(ttl, TournamentTTLHours,
                          Entry(0, TournamentData("ESL One Cologne", 0)), a)}
MaxOf(S) == CHOOSE m \in S : \A x \in S : x <= m

(* C35: the tournament cache uses a shorter TTL than news.  For every
   configuration, the defaults included, the maximum age at which a cached
   tournament name is still served is strictly smaller than the maximum age
   at which cached news is still served. *)
C35_TournamentTtlShorter ==
  MaxOf(TournamentServedAges(conf.cacheTTLHours))
    < MaxOf(NewsServedAges(conf.cacheTTLHours))

\* under the default configuration the tournament name was served from a
\* cache file as old as the news TTL allows, the age at which news is served
\* for the last time too
C35_Witness ==
  /\ conf.cacheTTLHours = DefaultCacheTTLHours
  /\ conf.loaded.kind = "tournament"
  /\ conf.loaded.served
  /\ conf.loaded.age = conf.cacheTTLHours
  /\ conf.news.state = "entry"
  /\ conf.hour - conf.news.timestamp = conf.loaded.age
  /\ ~loadFromCacheUnder(conf.cacheTTLHours, conf.news, conf.hour).null
  /\ loadFromCacheUnder(conf.cacheTTLHours, conf.news, conf.hour + 1).null

\* the request in flight was made under one session id after a response under
\* another id had set cookies
AfterOtherSession ==
  /\ visit.pc = "sent"
  /\ \E i \in VisitIds \ {visit.id} : visit.received[i] # {}

(* C36: sessions do not share cookies.  The Cookie header of a request made
   under a session id names only cookies that responses received under that
   id have set: a cookie absorbed from a response under another session, which
   is in the jar shared across the sessions too, is not attached. *)
C36_NoSharedCookies ==
  visit.pc = "sent" =>
    \A n \in 1..Len(visit.cookieHeader) :
       visit.cookieHeader[n] \in visit.received[visit.id]

\* a request is in flight under one session id with an empty Cookie header,
\* to a url for which the shared jar holds a cookie that a response under the
\* other id has set
C36_Witness ==
  /\ AfterOtherSession
  /\ visit.cookieHeader = <<>>
  /\ visit.received[visit.id] = {}
  /\ getCookieString(jar, visit.url, now) # <<>>

\* the session registered under `default` is older than the session TTL and
\* no session has an older last visit
DefaultIsOldest(reg, t) ==
  /\ Has(reg, "default")
  /\ t - Lookup(reg, "default").sessionStart > SessionTtlTicks
  /\ \A i \in 1..Len(reg) : Lookup(reg, "default").lastVisitTime <= reg[i].lastVisitTime

(* C37: the default session is exempt from eviction.  cleanupOldSessions,
   called as createNewSession calls it after registering a session, never
   removes the session registered under `default`, whatever its last-visit
   time and its age and however far the counter exceeds the cap. *)
C37_DefaultExempt ==
  \A id \in SessionIds, beh \in DrawnBehaviors, over \in 1..MaxOver :
     LET reg == Put(sessions, BrowserSession(id, beh, now))
         c == cleanupOldSessions(reg, MaxSessions + over, now)
     IN Has(reg, "default")
          => /\ Has(c.reg, "default")
             /\ Lookup(c.reg, "default") = Lookup(reg, "default")

\* a cleanup has evicted a session for the cap (it stopped on the id that it
\* had removed), with the default session older than the TTL and with the
\* oldest last visit, and the default session is registered as it was
C37_Witness ==
  /\ lastCall.made /\ lastCall.threw
  /\ DefaultIsOldest(sessions, now)
  /\ Len(sessions) > 1

\* the step ends a makeRequest call in a failure: an HTTP error such as 403, a
\* timeout or a transport error
FailedRequest ==
  /\ visit.pc = "sent"
  /\ visit'.pc = "idle"
  /\ ~visit'.before.ok

\* the visit history, visit count and last-visit time are the same
SameVisits(s, r) ==
  /\ s.visitHistory = r.visitHistory
  /\ s.visitCount = r.visitCount
  /\ s.lastVisitTime = r.lastVisitTime

(* C38 as stated: a failed request leaves the identity session untouched.
   When makeRequest fails, the session under the id of the request has the
   visit history, visit count, last-visit time and cookie store it had before,
   and the shared jar is unchanged. *)
C38_FailureFrame_Stated ==
  [][ FailedRequest =>
        /\ Has(sessions', visit.id)
        /\ SameVisits(Lookup(sessions', visit.id), Lookup(sessions, visit.id))
        /\ visit'.jars[visit.id] = visit.jars[visit.id]
        /\ jar' = jar
    ]_vars

(* C38, amended: when makeRequest fails, no visit is recorded and no cookie is
   stored: every session that is still registered has the visit history,
   visit count, last-visit time and cookie store it had when the request was
   sent, the shared jar is unchanged, and the only session that can have left
   the registry is the one of the request, after a 403 of a request that
   named its session. *)
C38_FailureFrame ==
  [][ FailedRequest =>
        /\ jar' = jar
        /\ jarDomains' = jarDomains
        /\ \A i \in 1..Len(sessions') :
              /\ Has(sessions, sessions'[i].id)
              /\ SameVisits(sessions'[i], Lookup(sessions, sessions'[i].id))
              /\ sessions'[i].cookies = Lookup(sessions, sessions'[i].id).cookies
        /\ \A i \in VisitIds :
              Has(sessions', i) => visit'.jars[i] = visit.jars[i]
        /\ \A i \in 1..Len(sessions) :
              ~Has(sessions', sessions[i].id)
                => /\ sessions[i].id = visit.id
                   /\ lastCall'.status = "forbidden"
    ]_vars

\* a request under a session that has a visit and cookies from the request
\* before it has failed with an error other than 403: the session is still
\* registered with its one visit and its cookies
C38_Witness ==
  /\ visit.pc = "idle"
  /\ visit.n = MaxVisits
  /\ visit.before.made /\ ~visit.before.ok
  /\ visit.kept
  /\ lastCall.status = "error"
  /\ Has(sessions, visit.before.id)
  /\ Lookup(sessions, visit.before.id).visitCount = 1
  /\ visit.jars[visit.before.id] # EmptyJar
  /\ jar # EmptyJar

(* C39: Secure cookies stay on TLS.  A cookie stored with the secure flag is
   never among the cookies of the Cookie header computed for a url that is
   not https, whatever its domain, path and expiry. *)
C39_SecureOnTls ==
  \A u \in Urls :
     ~u.https =>
       /\ \A c \in Range(Sent(u)) : ~c.secure
       /\ Len(getCookieString(jar, u, now)) = Len(Sent(u))

\* the jar holds a Secure cookie that the https url of a host receives and
\* the http url of the same host and path does not
C39_Witness ==
  \E k \in DOMAIN jar : \E c \in Range(jar[k]) : \E u \in Urls :
     /\ c.secure
     /\ ~u.https
     /\ Named([u EXCEPT !.https = TRUE], c)
     /\ ~Named(u, c)
     /\ c \notin Range(Sent(u))

(* C40: bounded auto-restart.  The wrapper runs at most one bot process at a
   time, starts one only when the one before it has closed, spawns at most
   MAX_RESTARTS + 1 bot processes in total, and when the bot closes after
   MAX_RESTARTS restarts the wrapper exits with code 1 and spawns no more. *)
C40_BoundedRestart ==
  /\ [](/\ wrapper.running <= 1
        /\ wrapper.spawned <= MAX_RESTARTS + 1
        /\ wrapper.exited => (wrapper.exitCode = 1 /\ wrapper.running = 0))
  /\ [][ /\ wrapper'.spawned > wrapper.spawned =>
              (wrapper.running = 0 /\ Len(wrapper.closed) = wrapper.spawned)
         /\ (wrapper'.running < wrapper.running /\ wrapper.restartCount = MAX_RESTARTS)
              => (wrapper'.exited /\ wrapper'.exitCode = 1 /\ wrapper'.timers = 0)
         /\ wrapper.exited => wrapper'.spawned = wrapper.spawned
       ]_vars

\* the bot has crashed MAX_RESTARTS + 1 times, once as first started and once
\* after each restart, and the wrapper has exited with code 1
C40_Witness ==
  /\ wrapper.exited
  /\ wrapper.exitCode = 1
  /\ wrapper.restartCount = MAX_RESTARTS
  /\ wrapper.spawned = MAX_RESTARTS + 1
  /\ Len(wrapper.closed) = MAX_RESTARTS + 1
  /\ \A n \in 1..Len(wrapper.closed) : wrapper.closed[n] = 1

====
